---- MODULE Spec2Model ----
(***************************************************************************)
(* Client-side orchestration core of the Python execution visualizer:      *)
(* the App session state machine (socket handlers, run/step/reset), the    *)
(* ValueAnimationOverlay effect with its dedup set and removal timers, and *)
(* the VariableViewer visibility store and position measurement.           *)
(***************************************************************************)
EXTENDS Integers, Sequences, FiniteSets, TLC

VARIABLES
    code,                 \* App: editor text, a sequence of characters
    variables,            \* App: scope -> (name -> variable data)
    isConnected,          \* App: connect / disconnect flag
    socket,               \* App: "null" before the mount effect, "io" after
    executionState,       \* App: 'idle' | 'running' | 'paused' | 'error' | ...
    isStepMode,           \* App: step-mode flag
    currentLine,          \* App: None or Some(line)
    variablePositions,    \* App: published position map, varId -> record
    animationData,        \* App: None or Some(animation event)
    iterationStack,       \* App: sequence of iteration frames
    activeAnimations,     \* Overlay: sequence of animation entries
    animationIdRef,       \* Overlay: next entry id
    processedAnimations,  \* Overlay: set of animation keys already seen
    timers,               \* Overlay: pending setTimeout removals
    hiddenVariables,      \* Viewer: set of hidden variable ids
    showHiddenVariables,  \* Viewer: reveal-hidden flag
    now,                  \* environment: clock (Date.now)
    pendingParse,         \* environment: POST /api/parse requests in flight
    emitted,              \* observation: messages sent by the last handler
    completed,            \* observation: ids passed to onAnimationComplete
    createdFor,           \* observation: createdFor[id + 1] is the key entry id was created for
    delivered,            \* observation: animation keys delivered before / since the last reset
    stepRequested,        \* observation: a step-mode parse request was sent since the last reset or completion
    lastOp                \* observation: name of the last handler that ran

appVars == <<code, variables, isConnected, socket, executionState, isStepMode,
             currentLine, variablePositions, animationData, iterationStack>>
overlayVars == <<activeAnimations, animationIdRef, processedAnimations, timers, createdFor>>
viewerVars == <<hiddenVariables, showHiddenVariables>>
envVars == <<now, pendingParse, completed>>
obsVars == <<emitted, delivered, stepRequested, lastOp>>
vars == <<appVars, overlayVars, viewerVars, envVars, obsVars>>

(***************************************************************************)
(* Bounds of the exploration.                                              *)
(***************************************************************************)
MaxPending == 1
MaxAnimations == 3
MaxTime == 2400

(***************************************************************************)
(* JavaScript values.  null / undefined is the empty sequence, a present   *)
(* value x is <<x>>.                                                       *)
(***************************************************************************)
None == <<>>
Some(x) == <<x>>
IsSome(o) == Len(o) > 0
Unwrap(o) == o[1]
\* a || b
OrElse(o, d) == IF IsSome(o) THEN Unwrap(o) ELSE d

EmptyObject == <<>>

(***************************************************************************)
(* Editor text and String.prototype.trim.                                  *)
(***************************************************************************)
IsWhitespace(ch) == ch = " "

RECURSIVE TrimStart(_)
TrimStart(s) ==
    IF Len(s) > 0 /\ IsWhitespace(Head(s)) THEN TrimStart(Tail(s)) ELSE s

RECURSIVE TrimEnd(_)
TrimEnd(s) ==
    IF Len(s) > 0 /\ IsWhitespace(s[Len(s)])
    THEN TrimEnd(SubSeq(s, 1, Len(s) - 1)) ELSE s

Trim(s) == TrimEnd(TrimStart(s))

\* !code.trim()
CodeIsBlank(c) == Len(Trim(c)) = 0

\* editor contents: empty, whitespace only, and text padded with whitespace
CodeTexts == {<<>>, <<" ", " ">>, <<" ", "x", " ">>}

(***************************************************************************)
(* Variable snapshots carried by the backend events.                       *)
(***************************************************************************)
\* kind is what the value field holds: "number", "array", "string", "null",
\* or "undefined" when the entry has no value field; type "" is a missing type
IntVar(n) ==
    [shape |-> "object", type |-> "int", isArray |-> FALSE, value |-> <<n>>,
     kind |-> "number"]
ListVar(xs) ==
    [shape |-> "object", type |-> "list", isArray |-> TRUE, value |-> xs,
     kind |-> "array"]
\* an entry that is not an object (null or a bare number)
RawVar(n) ==
    [shape |-> "raw", type |-> "", isArray |-> FALSE, value |-> <<n>>,
     kind |-> "number"]
\* a string, held as the sequence of its code points
StrVar(chars) ==
    [shape |-> "object", type |-> "str", isArray |-> FALSE, value |-> chars,
     kind |-> "string"]
\* an object entry whose value field is null
NullVar(type) ==
    [shape |-> "object", type |-> type, isArray |-> FALSE, value |-> <<>>,
     kind |-> "null"]
\* an object entry that has a type and no value field
TypeOnlyVar(type) ==
    [shape |-> "object", type |-> type, isArray |-> FALSE, value |-> <<>>,
     kind |-> "undefined"]
\* an object entry that has a value and no type field
ValueOnlyVar(n) ==
    [shape |-> "object", type |-> "", isArray |-> FALSE, value |-> <<n>>,
     kind |-> "number"]

SnapX == [s \in {"global"} |-> [n \in {"x"} |-> IntVar(1)]]
SnapLoop ==
    [s \in {"global"} |->
        [n \in {"i", "arr"} |-> IF n = "i" THEN IntVar(1) ELSE ListVar(<<1, 2>>)]]
SnapRaw == [s \in {"global"} |-> [n \in {"x"} |-> RawVar(7)]]

\* `${scope}.${varName}`
VarId(scope, name) == <<scope, name>>

(***************************************************************************)
(* Animation events and their dedup key.                                   *)
(***************************************************************************)
AnimationEvent(step, kind) ==
    [line |-> 2, operation |-> "append", source_variable |-> "i",
     target_variable |-> "arr", source_value |-> 1, step_count |-> step,
     animation_type |-> kind]

AnimationEvents == {AnimationEvent(1, "fly"), AnimationEvent(2, "fly")}

animationKey(a) ==
    <<a.line, a.operation, a.source_variable, a.target_variable,
      a.source_value, a.step_count>>

animationDuration == 1200

(***************************************************************************)
(* VariableViewer: which cards are rendered with a ref, and the position   *)
(* record measured for each of them.                                       *)
(***************************************************************************)
\* a card is skipped when it is hidden and hidden variables are not revealed
CardShown(vs, hidden, reveal, s, n) ==
    ~(VarId(s, n) \in hidden /\ ~reveal)

\* cards in the DOM (well-formed or not)
RenderedCards(vs, hidden, reveal) ==
    UNION {{VarId(s, n) : n \in {m \in DOMAIN vs[s] : CardShown(vs, hidden, reveal, s, m)}}
           : s \in DOMAIN vs}

\* cards that carry a ref: the entry is an object
RefCards(vs, hidden, reveal) ==
    {id \in RenderedCards(vs, hidden, reveal) : vs[id[1]][id[2]].shape = "object"}

NameRank(n) == CASE n = "x" -> 0 [] n = "i" -> 1 [] n = "arr" -> 2 [] OTHER -> 3

\* cards are laid out top to bottom in rendering order
CardRank(id, cards) == Cardinality({c \in cards : NameRank(c[2]) < NameRank(id[2])})

containerRect == [left |-> 600, top |-> 80]

getBoundingClientRect(rank) ==
    [left |-> 620, top |-> 100 + 60 * rank, width |-> 200, height |-> 40]

relativePosition(rect) ==
    [top |-> rect.top - containerRect.top,
     left |-> rect.left - containerRect.left,
     width |-> rect.width,
     height |-> rect.height,
     centerX |-> rect.left - containerRect.left + rect.width \div 2,
     centerY |-> rect.top - containerRect.top + rect.height \div 2,
     absoluteX |-> rect.left,
     absoluteY |-> rect.top]

\* plausible slip: the new records are merged into the previous map
MeasurePositions_Merges(vs, hidden, reveal) ==
    LET cards == RefCards(vs, hidden, reveal) IN
    [id \in cards \cup DOMAIN variablePositions |->
        IF id \in cards
        THEN relativePosition(getBoundingClientRect(CardRank(id, RenderedCards(vs, hidden, reveal))))
        ELSE variablePositions[id]]

\* newPositions of updatePositions
MeasurePositions(vs, hidden, reveal) ==
    LET cards == RefCards(vs, hidden, reveal) IN
    [id \in cards |-> relativePosition(getBoundingClientRect(CardRank(id, RenderedCards(vs, hidden, reveal))))]

(***************************************************************************)
(* ValueAnimationOverlay: the effect that runs after every render of the   *)
(* App with the current animationData and variablePositions.  o is the     *)
(* overlay state, t the current time.                                      *)
(***************************************************************************)
OverlayState ==
    [active |-> activeAnimations, idRef |-> animationIdRef,
     processed |-> processedAnimations, timers |-> timers,
     createdFor |-> createdFor]

\* plausible slip: the centers relative to the viewer container are used
newAnimation_RelativeCenter(a, id, sourcePos, targetPos, t) ==
    [id |-> id,
     value |-> a.source_value,
     startX |-> sourcePos.centerX,
     startY |-> sourcePos.centerY,
     endX |-> targetPos.centerX,
     endY |-> targetPos.centerY,
     operation |-> a.operation,
     animationType |-> a.animation_type,
     timestamp |-> t]

newAnimation(a, id, sourcePos, targetPos, t) ==
    [id |-> id,
     value |-> a.source_value,
     startX |-> sourcePos.absoluteX + sourcePos.width \div 2,
     startY |-> sourcePos.absoluteY + sourcePos.height \div 2,
     endX |-> targetPos.absoluteX + targetPos.width \div 2,
     endY |-> targetPos.absoluteY + targetPos.height \div 2,
     operation |-> a.operation,
     animationType |-> a.animation_type,
     timestamp |-> t]

\* both position records are present
HasPositions(a, pos) ==
    /\ VarId("global", a.source_variable) \in DOMAIN pos
    /\ VarId("global", a.target_variable) \in DOMAIN pos

\* plausible slip: the removal timer runs for half the duration
StartAnimation_ShortTimer(a, pos, o, t) ==
    LET id == o.idRef
        sourcePos == pos[VarId("global", a.source_variable)]
        targetPos == pos[VarId("global", a.target_variable)]
    IN [o EXCEPT !.idRef = id + 1,
                 !.active = Append(@, newAnimation(a, id, sourcePos, targetPos, t)),
                 !.timers = @ \cup {[id |-> id, due |-> t + animationDuration \div 2]},
                 !.createdFor = Append(@, animationKey(a))]

\* plausible slip: the id is the length of the active list
StartAnimation_IdFromLength(a, pos, o, t) ==
    LET id == Len(o.active)
        sourcePos == pos[VarId("global", a.source_variable)]
        targetPos == pos[VarId("global", a.target_variable)]
    IN [o EXCEPT !.idRef = @ + 1,
                 !.active = Append(@, newAnimation(a, id, sourcePos, targetPos, t)),
                 !.timers = @ \cup {[id |-> id, due |-> t + animationDuration]},
                 !.createdFor = Append(@, animationKey(a))]

StartAnimation(a, pos, o, t) ==
    LET id == o.idRef
        sourcePos == pos[VarId("global", a.source_variable)]
        targetPos == pos[VarId("global", a.target_variable)]
    IN [o EXCEPT !.idRef = id + 1,
                 !.active = Append(@, newAnimation(a, id, sourcePos, targetPos, t)),
                 !.timers = @ \cup {[id |-> id, due |-> t + animationDuration]},
                 !.createdFor = Append(@, animationKey(a))]

\* plausible slip: a null event also drops the entries in flight
OverlayEffect_NullClearsActive(ad, pos, o, t) ==
    IF ~IsSome(ad)
    THEN [o EXCEPT !.processed = {}, !.active = <<>>]
    ELSE LET a == Unwrap(ad)
             key == animationKey(a)
         IN IF key \in o.processed
            THEN o
            ELSE LET seen == [o EXCEPT !.processed = @ \cup {key}]
                 IN IF HasPositions(a, pos)
                    THEN StartAnimation(a, pos, seen, t)
                    ELSE seen

\* plausible slip: the key is remembered only when the animation starts
OverlayEffect_RetriesWhenMissing(ad, pos, o, t) ==
    IF ~IsSome(ad)
    THEN [o EXCEPT !.processed = {}]
    ELSE LET a == Unwrap(ad)
             key == animationKey(a)
         IN IF key \in o.processed
            THEN o
            ELSE LET seen == [o EXCEPT !.processed = @ \cup {key}]
                 IN IF HasPositions(a, pos)
                    THEN StartAnimation(a, pos, seen, t)
                    ELSE o

OverlayEffect(ad, pos, o, t) ==
    IF ~IsSome(ad)
    THEN [o EXCEPT !.processed = {}]
    ELSE LET a == Unwrap(ad)
             key == animationKey(a)
         IN IF key \in o.processed
            THEN o
            ELSE LET seen == [o EXCEPT !.processed = @ \cup {key}]
                 IN IF HasPositions(a, pos)
                    THEN StartAnimation(a, pos, seen, t)
                    ELSE seen

\* the overlay after the App re-rendered with animationData ad and positions pos
Rerender(ad, pos, o) ==
    LET r == OverlayEffect(ad, pos, o, now) IN
    /\ r.idRef <= MaxAnimations
    /\ activeAnimations' = r.active
    /\ animationIdRef' = r.idRef
    /\ processedAnimations' = r.processed
    /\ timers' = r.timers
    /\ createdFor' = r.createdFor

\* msgs holds the step-mode parse request
SendsStepParse(msgs) ==
    \E k \in 1..Len(msgs) : msgs[k].name = "parse_code" /\ msgs[k].step_mode

\* what every handler records about itself
Observe(op, msgs) ==
    /\ lastOp' = op
    /\ emitted' = msgs
    /\ delivered' = delivered
    /\ stepRequested' = IF op = "execution_completed" THEN FALSE
                        ELSE stepRequested \/ SendsStepParse(msgs)

\* the same for a handler that receives an animation event (or none)
ObserveDelivery(op, msgs, anim) ==
    /\ lastOp' = op
    /\ emitted' = msgs
    /\ delivered' = IF IsSome(anim)
                    THEN [delivered EXCEPT !.since = @ \cup {animationKey(Unwrap(anim))}]
                    ELSE delivered
    /\ stepRequested' = stepRequested

\* the same for the reset handler
ObserveReset(op, msgs) ==
    /\ lastOp' = op
    /\ emitted' = msgs
    /\ delivered' = [before |-> delivered.before \cup delivered.since, since |-> {}]
    /\ stepRequested' = FALSE

(***************************************************************************)
(* Messages to the backend.                                                *)
(***************************************************************************)
SocketMessage(name, src, stepMode) ==
    [via |-> "socket", name |-> name, source_code |-> src, step_mode |-> stepMode]
HttpRequest(name, src) ==
    [via |-> "http", name |-> name, source_code |-> src, step_mode |-> FALSE]

(***************************************************************************)
(* Payloads of the inbound events.                                         *)
(***************************************************************************)
Frame(level, container, index) ==
    [level |-> level, container |-> container, current_index |-> index,
     multi_indices |-> EmptyObject]

StepPayloads(snaps, anims, stacks, lines) ==
    [variables : snaps, animation : anims, iteration_stack : stacks, line : lines]

UpdatePayloads(snaps, statuses) == [variables : snaps, status : statuses]

Statuses == {None, Some("idle"), Some("running"), Some("paused"), Some("error"), Some("completed")}

(***************************************************************************)
(* Initial state: the App after its first render, before the mount effect. *)
(***************************************************************************)
Init ==
    /\ code = <<>>
    /\ variables = EmptyObject
    /\ isConnected = FALSE
    /\ socket = "null"
    /\ executionState = "idle"
    /\ isStepMode = FALSE
    /\ currentLine = None
    /\ variablePositions = EmptyObject
    /\ animationData = None
    /\ iterationStack = <<>>
    /\ activeAnimations = <<>>
    /\ animationIdRef = 0
    /\ processedAnimations = {}
    /\ timers = {}
    /\ createdFor = <<>>
    /\ hiddenVariables = {}
    /\ showHiddenVariables = FALSE
    /\ now = 0
    /\ pendingParse = 0
    /\ completed = <<>>
    /\ emitted = <<>>
    /\ delivered = [before |-> {}, since |-> {}]
    /\ stepRequested = FALSE
    /\ lastOp = "init"

\* the App re-rendered without touching animationData or variablePositions
RerenderSame == Rerender(animationData, variablePositions, OverlayState)

(***************************************************************************)
(* App: mount effect and connection handlers.                              *)
(***************************************************************************)
Mount ==
    /\ socket = "null"
    /\ socket' = "io"
    /\ RerenderSame
    /\ Observe("mount", <<>>)
    /\ UNCHANGED <<code, variables, isConnected, executionState, isStepMode, currentLine,
                   variablePositions, animationData, iterationStack, viewerVars, envVars>>

OnConnect ==
    /\ socket = "io" /\ ~isConnected
    /\ isConnected' = TRUE
    /\ RerenderSame
    /\ Observe("connect", <<>>)
    /\ UNCHANGED <<code, variables, socket, executionState, isStepMode, currentLine,
                   variablePositions, animationData, iterationStack, viewerVars, envVars>>

OnDisconnect ==
    /\ socket = "io" /\ isConnected
    /\ isConnected' = FALSE
    /\ RerenderSame
    /\ Observe("disconnect", <<>>)
    /\ UNCHANGED <<code, variables, socket, executionState, isStepMode, currentLine,
                   variablePositions, animationData, iterationStack, viewerVars, envVars>>

\* an event of the backend is delivered to a registered handler
Delivering == socket = "io" /\ isConnected

setCode(c) ==
    /\ code' = c
    /\ RerenderSame
    /\ Observe("setCode", <<>>)
    /\ UNCHANGED <<variables, isConnected, socket, executionState, isStepMode, currentLine,
                   variablePositions, animationData, iterationStack, viewerVars, envVars>>

(***************************************************************************)
(* App: socket event handlers.                                             *)
(***************************************************************************)
OnCodeParsed(success) ==
    /\ Delivering
    /\ executionState' = IF ~success THEN "error" ELSE executionState
    /\ RerenderSame
    /\ Observe("code_parsed", <<>>)
    /\ UNCHANGED <<code, variables, isConnected, socket, isStepMode, currentLine,
                   variablePositions, animationData, iterationStack, viewerVars, envVars>>

\* plausible slip: the handler also resets the step-mode flag
OnExecutionStarted_ClearsStepMode ==
    /\ Delivering
    /\ executionState' = IF executionState = "paused" THEN "paused" ELSE "running"
    /\ isStepMode' = FALSE
    /\ RerenderSame
    /\ Observe("execution_started", <<>>)
    /\ UNCHANGED <<code, variables, isConnected, socket, currentLine,
                   variablePositions, animationData, iterationStack, viewerVars, envVars>>

\* plausible slip: the handler does not consult the current mode
OnExecutionStarted_AlwaysRunning ==
    /\ Delivering
    /\ executionState' = "running"
    /\ RerenderSame
    /\ Observe("execution_started", <<>>)
    /\ UNCHANGED <<code, variables, isConnected, socket, isStepMode, currentLine,
                   variablePositions, animationData, iterationStack, viewerVars, envVars>>

OnExecutionStarted ==
    /\ Delivering
    /\ executionState' = IF executionState = "paused" THEN "paused" ELSE "running"
    /\ RerenderSame
    /\ Observe("execution_started", <<>>)
    /\ UNCHANGED <<code, variables, isConnected, socket, isStepMode, currentLine,
                   variablePositions, animationData, iterationStack, viewerVars, envVars>>

\* plausible slip: a step without a line clears the highlighted line
OnExecutionStep_ClearsLineWhenAbsent(data) ==
    /\ Delivering
    /\ variables' = OrElse(data.variables, EmptyObject)
    /\ animationData' = IF IsSome(data.animation) THEN data.animation ELSE animationData
    /\ iterationStack' = IF IsSome(data.iteration_stack)
                         THEN Unwrap(data.iteration_stack) ELSE iterationStack
    /\ currentLine' = IF IsSome(data.line) /\ Unwrap(data.line) # 0
                      THEN (IF currentLine # data.line THEN data.line ELSE currentLine)
                      ELSE None
    /\ executionState' = IF executionState = "paused" THEN "paused" ELSE "running"
    /\ Rerender(animationData', variablePositions, OverlayState)
    /\ ObserveDelivery("execution_step", <<>>, data.animation)
    /\ UNCHANGED <<code, isConnected, socket, isStepMode, variablePositions,
                   viewerVars, envVars>>

\* plausible slip: a step without variables keeps the previous snapshot
OnExecutionStep_KeepsWhenAbsent(data) ==
    /\ Delivering
    /\ variables' = OrElse(data.variables, variables)
    /\ animationData' = IF IsSome(data.animation) THEN data.animation ELSE animationData
    /\ iterationStack' = IF IsSome(data.iteration_stack)
                         THEN Unwrap(data.iteration_stack) ELSE iterationStack
    /\ currentLine' = IF IsSome(data.line) /\ Unwrap(data.line) # 0
                      THEN (IF currentLine # data.line THEN data.line ELSE currentLine)
                      ELSE currentLine
    /\ executionState' = IF executionState = "paused" THEN "paused" ELSE "running"
    /\ Rerender(animationData', variablePositions, OverlayState)
    /\ ObserveDelivery("execution_step", <<>>, data.animation)
    /\ UNCHANGED <<code, isConnected, socket, isStepMode, variablePositions,
                   viewerVars, envVars>>

\* plausible slip: the step handler does not keep the paused lineage
OnExecutionStep_AlwaysRunning(data) ==
    /\ Delivering
    /\ variables' = OrElse(data.variables, EmptyObject)
    /\ animationData' = IF IsSome(data.animation) THEN data.animation ELSE animationData
    /\ iterationStack' = IF IsSome(data.iteration_stack)
                         THEN Unwrap(data.iteration_stack) ELSE iterationStack
    /\ currentLine' = IF IsSome(data.line) /\ Unwrap(data.line) # 0
                      THEN (IF currentLine # data.line THEN data.line ELSE currentLine)
                      ELSE currentLine
    /\ executionState' = "running"
    /\ Rerender(animationData', variablePositions, OverlayState)
    /\ ObserveDelivery("execution_step", <<>>, data.animation)
    /\ UNCHANGED <<code, isConnected, socket, isStepMode, variablePositions,
                   viewerVars, envVars>>

OnExecutionStep(data) ==
    /\ Delivering
    /\ variables' = OrElse(data.variables, EmptyObject)
    /\ animationData' = IF IsSome(data.animation) THEN data.animation ELSE animationData
    /\ iterationStack' = IF IsSome(data.iteration_stack)
                         THEN Unwrap(data.iteration_stack) ELSE iterationStack
    /\ currentLine' = IF IsSome(data.line) /\ Unwrap(data.line) # 0
                      THEN (IF currentLine # data.line THEN data.line ELSE currentLine)
                      ELSE currentLine
    /\ executionState' = IF executionState = "paused" THEN "paused" ELSE "running"
    /\ Rerender(animationData', variablePositions, OverlayState)
    /\ ObserveDelivery("execution_step", <<>>, data.animation)
    /\ UNCHANGED <<code, isConnected, socket, isStepMode, variablePositions,
                   viewerVars, envVars>>

\* plausible slip: the handler forgets setCurrentLine(null)
OnExecutionCompleted_KeepsLine(resultVariables) ==
    /\ Delivering
    /\ variables' = OrElse(resultVariables, EmptyObject)
    /\ executionState' = "idle"
    /\ isStepMode' = FALSE
    /\ RerenderSame
    /\ Observe("execution_completed", <<>>)
    /\ UNCHANGED <<code, isConnected, socket, currentLine, variablePositions, animationData,
                   iterationStack, viewerVars, envVars>>

OnExecutionCompleted(resultVariables) ==
    /\ Delivering
    /\ variables' = OrElse(resultVariables, EmptyObject)
    /\ executionState' = "idle"
    /\ isStepMode' = FALSE
    /\ currentLine' = None
    /\ RerenderSame
    /\ Observe("execution_completed", <<>>)
    /\ UNCHANGED <<code, isConnected, socket, variablePositions, animationData,
                   iterationStack, viewerVars, envVars>>

\* plausible slip: the error handler also drops the snapshot
OnExecutionError_ClearsVariables ==
    /\ Delivering
    /\ variables' = EmptyObject
    /\ executionState' = "error"
    /\ isStepMode' = FALSE
    /\ currentLine' = None
    /\ RerenderSame
    /\ Observe("execution_error", <<>>)
    /\ UNCHANGED <<code, isConnected, socket, variablePositions, animationData,
                   iterationStack, viewerVars, envVars>>

OnExecutionError ==
    /\ Delivering
    /\ executionState' = "error"
    /\ isStepMode' = FALSE
    /\ currentLine' = None
    /\ RerenderSame
    /\ Observe("execution_error", <<>>)
    /\ UNCHANGED <<code, variables, isConnected, socket, variablePositions, animationData,
                   iterationStack, viewerVars, envVars>>

OnExecutionControl ==
    /\ Delivering
    /\ Observe("execution_control", <<>>)
    /\ UNCHANGED <<appVars, overlayVars, viewerVars, envVars>>

OnExecutionUpdate(data) ==
    /\ Delivering
    /\ variables' = OrElse(data.variables, EmptyObject)
    /\ executionState' = OrElse(data.status, "idle")
    /\ RerenderSame
    /\ Observe("execution_update", <<>>)
    /\ UNCHANGED <<code, isConnected, socket, isStepMode, currentLine, variablePositions,
                   animationData, iterationStack, viewerVars, envVars>>

OnExecutionComplete(data) ==
    /\ Delivering
    /\ variables' = OrElse(data.variables, EmptyObject)
    /\ executionState' = "idle"
    /\ RerenderSame
    /\ Observe("execution_complete", <<>>)
    /\ UNCHANGED <<code, isConnected, socket, isStepMode, currentLine, variablePositions,
                   animationData, iterationStack, viewerVars, envVars>>

(***************************************************************************)
(* App: run / step / reset handlers.                                       *)
(***************************************************************************)
\* plausible slip: the run handler forgets setIsStepMode(false)
handleRunCode_KeepsStepMode ==
    /\ Observe("requestRun",
               IF CodeIsBlank(code) THEN <<>> ELSE <<HttpRequest("/api/parse", code)>>)
    /\ IF CodeIsBlank(code)
       THEN UNCHANGED <<appVars, overlayVars, viewerVars, envVars>>
       ELSE /\ pendingParse < MaxPending
            /\ executionState' = "running"
            /\ pendingParse' = pendingParse + 1
            /\ RerenderSame
            /\ UNCHANGED <<code, variables, isConnected, socket, isStepMode, currentLine,
                           variablePositions, animationData, iterationStack,
                           viewerVars, now, completed>>

handleRunCode ==
    /\ Observe("requestRun",
               IF CodeIsBlank(code) THEN <<>> ELSE <<HttpRequest("/api/parse", code)>>)
    /\ IF CodeIsBlank(code)
       THEN UNCHANGED <<appVars, overlayVars, viewerVars, envVars>>
       ELSE /\ pendingParse < MaxPending
            /\ executionState' = "running"
            /\ isStepMode' = FALSE
            /\ pendingParse' = pendingParse + 1
            /\ RerenderSame
            /\ UNCHANGED <<code, variables, isConnected, socket, currentLine,
                           variablePositions, animationData, iterationStack,
                           viewerVars, now, completed>>

\* plausible slip: the catch branch only logs
ParseResponse_IgnoresThrow(outcome) ==
    /\ pendingParse > 0
    /\ pendingParse' = pendingParse - 1
    /\ executionState' = IF outcome = "failure" THEN "error" ELSE executionState
    /\ RerenderSame
    /\ Observe("parse_response", <<>>)
    /\ UNCHANGED <<code, variables, isConnected, socket, isStepMode, currentLine,
                   variablePositions, animationData, iterationStack, viewerVars,
                   now, completed>>

\* the continuation of handleRunCode after the awaited POST settles
ParseResponse(outcome) ==
    /\ pendingParse > 0
    /\ pendingParse' = pendingParse - 1
    /\ executionState' = IF outcome = "success" THEN executionState ELSE "error"
    /\ RerenderSame
    /\ Observe("parse_response", <<>>)
    /\ UNCHANGED <<code, variables, isConnected, socket, isStepMode, currentLine,
                   variablePositions, animationData, iterationStack, viewerVars,
                   now, completed>>

ParseOutcomes == {"success", "failure", "throw"}

\* plausible slip: the first branch is taken without checking for 'idle'
handleStepCode_NoIdleCheck ==
    IF CodeIsBlank(code) \/ socket = "null"
    THEN /\ Observe("requestStep", <<>>)
         /\ UNCHANGED <<appVars, overlayVars, viewerVars, envVars>>
    ELSE /\ executionState' = "paused"
         /\ isStepMode' = TRUE
         /\ RerenderSame
         /\ Observe("requestStep", <<SocketMessage("parse_code", code, TRUE)>>)
         /\ UNCHANGED <<code, variables, isConnected, socket, currentLine,
                        variablePositions, animationData, iterationStack,
                        viewerVars, envVars>>

\* plausible slip: continuing from 'paused' marks the session as running
handleStepCode_ContinueRuns ==
    IF CodeIsBlank(code) \/ socket = "null"
    THEN /\ Observe("requestStep", <<>>)
         /\ UNCHANGED <<appVars, overlayVars, viewerVars, envVars>>
    ELSE IF executionState = "idle"
    THEN /\ executionState' = "paused"
         /\ isStepMode' = TRUE
         /\ RerenderSame
         /\ Observe("requestStep", <<SocketMessage("parse_code", code, TRUE)>>)
         /\ UNCHANGED <<code, variables, isConnected, socket, currentLine,
                        variablePositions, animationData, iterationStack,
                        viewerVars, envVars>>
    ELSE IF executionState = "paused"
    THEN /\ executionState' = "running"
         /\ RerenderSame
         /\ Observe("requestStep", <<SocketMessage("step_next", <<>>, FALSE)>>)
         /\ UNCHANGED <<code, variables, isConnected, socket, isStepMode, currentLine,
                        variablePositions, animationData, iterationStack,
                        viewerVars, envVars>>
    ELSE /\ Observe("requestStep", <<>>)
         /\ UNCHANGED <<appVars, overlayVars, viewerVars, envVars>>

handleStepCode ==
    IF CodeIsBlank(code) \/ socket = "null"
    THEN /\ Observe("requestStep", <<>>)
         /\ UNCHANGED <<appVars, overlayVars, viewerVars, envVars>>
    ELSE IF executionState = "idle"
    THEN /\ executionState' = "paused"
         /\ isStepMode' = TRUE
         /\ RerenderSame
         /\ Observe("requestStep", <<SocketMessage("parse_code", code, TRUE)>>)
         /\ UNCHANGED <<code, variables, isConnected, socket, currentLine,
                        variablePositions, animationData, iterationStack,
                        viewerVars, envVars>>
    ELSE IF executionState = "paused"
    THEN /\ Observe("requestStep", <<SocketMessage("step_next", <<>>, FALSE)>>)
         /\ UNCHANGED <<appVars, overlayVars, viewerVars, envVars>>
    ELSE /\ Observe("requestStep", <<>>)
         /\ UNCHANGED <<appVars, overlayVars, viewerVars, envVars>>

\* plausible slip: the reset forgets setCurrentLine(null)
handleResetCode_KeepsLine ==
    /\ variables' = EmptyObject
    /\ executionState' = "idle"
    /\ isStepMode' = FALSE
    /\ RerenderSame
    /\ ObserveReset("requestReset",
                    IF socket # "null" THEN <<SocketMessage("reset", <<>>, FALSE)>> ELSE <<>>)
    /\ UNCHANGED <<code, isConnected, socket, currentLine, variablePositions,
                   animationData, iterationStack, viewerVars, envVars>>

\* plausible slip: the reset also empties the visibility store
handleResetCode_ClearsHidden ==
    /\ variables' = EmptyObject
    /\ executionState' = "idle"
    /\ isStepMode' = FALSE
    /\ currentLine' = None
    /\ hiddenVariables' = {}
    /\ showHiddenVariables' = FALSE
    /\ RerenderSame
    /\ ObserveReset("requestReset",
                    IF socket # "null" THEN <<SocketMessage("reset", <<>>, FALSE)>> ELSE <<>>)
    /\ UNCHANGED <<code, isConnected, socket, variablePositions, animationData,
                   iterationStack, envVars>>

handleResetCode ==
    /\ variables' = EmptyObject
    /\ executionState' = "idle"
    /\ isStepMode' = FALSE
    /\ currentLine' = None
    /\ RerenderSame
    /\ ObserveReset("requestReset",
               IF socket # "null" THEN <<SocketMessage("reset", <<>>, FALSE)>> ELSE <<>>)
    /\ UNCHANGED <<code, isConnected, socket, variablePositions, animationData,
                   iterationStack, viewerVars, envVars>>

\* ExecutionControls disables the three buttons, and CodeEditor the textarea,
\* while executionState === 'running'
\* plausible slip: the buttons are disabled while paused instead
ControlsEnabled_WhilePaused == executionState # "paused"

ControlsEnabled == executionState # "running"

ClickRun == ControlsEnabled /\ handleRunCode
ClickStep == ControlsEnabled /\ handleStepCode
ClickReset == ControlsEnabled /\ handleResetCode
EditCode(c) == ControlsEnabled /\ setCode(c)

(***************************************************************************)
(* App: callbacks handed to the children.                                  *)
(***************************************************************************)
\* timer or resize listener of VariableViewer: updatePositions, then
\* handleVariablePositionsUpdate in the App
updatePositions ==
    /\ variablePositions' = MeasurePositions(variables, hiddenVariables, showHiddenVariables)
    /\ Rerender(animationData, variablePositions', OverlayState)
    /\ Observe("updatePositions", <<>>)
    /\ UNCHANGED <<code, variables, isConnected, socket, executionState, isStepMode,
                   currentLine, animationData, iterationStack, viewerVars, envVars>>

\* plausible slip: the completion callback leaves the event in place
TimerFire_KeepsEvent(t) ==
    /\ t \in timers
    /\ t.due <= now
    /\ animationData' = animationData
    /\ completed' = Append(completed, t.id)
    /\ Rerender(animationData, variablePositions,
                [OverlayState EXCEPT
                    !.active = SelectSeq(@, LAMBDA anim : anim.id # t.id),
                    !.timers = @ \ {t}])
    /\ Observe("animationComplete", <<>>)
    /\ UNCHANGED <<code, variables, isConnected, socket, executionState, isStepMode,
                   currentLine, variablePositions, iterationStack, viewerVars,
                   now, pendingParse>>

\* the setTimeout callback of entry t.id, with handleAnimationComplete
TimerFire(t) ==
    /\ t \in timers
    /\ t.due <= now
    /\ animationData' = None
    /\ completed' = Append(completed, t.id)
    /\ Rerender(None, variablePositions,
                [OverlayState EXCEPT
                    !.active = SelectSeq(@, LAMBDA anim : anim.id # t.id),
                    !.timers = @ \ {t}])
    /\ Observe("animationComplete", <<>>)
    /\ UNCHANGED <<code, variables, isConnected, socket, executionState, isStepMode,
                   currentLine, variablePositions, iterationStack, viewerVars,
                   now, pendingParse>>

TickSteps == {600}

\* time passes; a due timer fires before the clock moves past it
Tick(d) ==
    /\ now + d <= MaxTime
    /\ \A t \in timers : now + d <= t.due
    /\ now' = now + d
    /\ Observe("tick", <<>>)
    /\ UNCHANGED <<appVars, overlayVars, viewerVars, pendingParse, completed>>

(***************************************************************************)
(* VariableViewer: visibility store.                                       *)
(***************************************************************************)
\* plausible slip: the new set holds the hidden variable alone
hideUpdater_Replaces(prev, varId) == {varId}

\* prev => new Set([...prev, varId])
hideUpdater(prev, varId) == prev \cup {varId}

\* prev => { const newSet = new Set(prev); newSet.delete(varId); return newSet; }
showUpdater(prev, varId) == prev \ {varId}

hideVariable(scope, varName) ==
    /\ hiddenVariables' = hideUpdater(hiddenVariables, VarId(scope, varName))
    /\ Observe("hide", <<>>)
    /\ UNCHANGED <<appVars, overlayVars, showHiddenVariables, envVars>>

showVariable(scope, varName) ==
    /\ hiddenVariables' = showUpdater(hiddenVariables, VarId(scope, varName))
    /\ Observe("show", <<>>)
    /\ UNCHANGED <<appVars, overlayVars, showHiddenVariables, envVars>>

toggleShowHiddenVariables ==
    /\ showHiddenVariables' = ~showHiddenVariables
    /\ Observe("toggle", <<>>)
    /\ UNCHANGED <<appVars, overlayVars, hiddenVariables, envVars>>

\* the hide button of a rendered card that is not hidden
ClickHide(id) ==
    /\ id \in RenderedCards(variables, hiddenVariables, showHiddenVariables)
    /\ id \notin hiddenVariables
    /\ hideVariable(id[1], id[2])

\* the show button of a rendered card that is hidden
ClickShow(id) ==
    /\ id \in RenderedCards(variables, hiddenVariables, showHiddenVariables)
    /\ id \in hiddenVariables
    /\ showVariable(id[1], id[2])

\* the header button exists while hiddenVariables.size > 0
ClickToggle ==
    /\ Cardinality(hiddenVariables) > 0
    /\ toggleShowHiddenVariables

VarIds == {VarId("global", "x")}

(***************************************************************************)
(* VariableViewer: what the card of one entry shows.                       *)
(***************************************************************************)
\* varData.type || 'unknown'
safeType(varData) == IF varData.type = "" THEN "unknown" ELSE varData.type

\* varData.value !== undefined ? varData.value : varData, as the kind of
\* value handed to renderVariableValue
safeValue(varData) == IF varData.kind # "undefined" THEN varData.kind ELSE "object"

\* the branch renderVariableValue takes, and whether it throws:
\* Array.from(null) and Object.keys(null) are TypeErrors
renderVariableValue(value, type) ==
    IF value = "array"
    THEN [view |-> "array", throws |-> FALSE]
    ELSE IF type = "str" \/ value = "string"
    THEN [view |-> "string", throws |-> value \in {"null", "undefined"}]
    ELSE IF type = "dict" \/ value = "object"
    THEN [view |-> "dict", throws |-> value \in {"null", "undefined"}]
    ELSE [view |-> "basic", throws |-> FALSE]

\* the card of one entry: the type label, the view of the value, what the
\* view serializes (the value field or the entry itself) and whether
\* rendering it throws
renderCard(varData) ==
    IF varData.shape # "object"
    THEN [type |-> "unknown", view |-> "basic", shows |-> "entry", throws |-> FALSE]
    ELSE LET r == renderVariableValue(safeValue(varData), safeType(varData)) IN
         [type |-> safeType(varData), view |-> r.view,
          shows |-> IF varData.kind # "undefined" THEN "value" ELSE "entry",
          throws |-> r.throws]

\* rendering the viewer throws: no error boundary surrounds it, so React
\* unmounts the whole tree
RenderFails ==
    \E id \in RenderedCards(variables, hiddenVariables, showHiddenVariables) :
        renderCard(variables[id[1]][id[2]]).throws

(***************************************************************************)
(* Specifications.                                                         *)
(***************************************************************************)
SessionSnaps == {None, Some(SnapX), Some(SnapRaw)}
SessionStacks == {None, Some(<<Frame(0, "arr", 0)>>)}
SessionLines == {None, Some(0), Some(1), Some(2)}
SessionSteps == StepPayloads(SessionSnaps, {None}, SessionStacks, SessionLines)

\* inbound events of the session protocol
SessionEvents ==
    \/ \E success \in BOOLEAN : OnCodeParsed(success)
    \/ OnExecutionStarted
    \/ \E data \in SessionSteps : OnExecutionStep(data)
    \/ \E result \in SessionSnaps : OnExecutionCompleted(result)
    \/ OnExecutionError
    \/ OnExecutionControl
    \/ \E data \in UpdatePayloads(SessionSnaps, Statuses) : OnExecutionUpdate(data)
    \/ \E data \in [variables : SessionSnaps] : OnExecutionComplete(data)

Connection == Mount \/ OnConnect \/ OnDisconnect

\* the session as the user drives it through the rendered controls
Next ==
    \/ Connection
    \/ SessionEvents
    \/ \E c \in CodeTexts : EditCode(c)
    \/ ClickRun
    \/ \E outcome \in ParseOutcomes : ParseResponse(outcome)
    \/ ClickStep
    \/ ClickReset
    \/ \E id \in VarIds : ClickHide(id)
    \/ \E id \in VarIds : ClickShow(id)
    \/ ClickToggle

Spec == Init /\ [][Next]_vars

\* the session with every handler invoked directly, whatever the controls show
NextHandlers ==
    \/ Connection
    \/ SessionEvents
    \/ \E c \in CodeTexts : setCode(c)
    \/ handleRunCode
    \/ \E outcome \in ParseOutcomes : ParseResponse(outcome)
    \/ handleStepCode
    \/ handleResetCode
    \/ \E id \in VarIds : hideVariable(id[1], id[2])
    \/ \E id \in VarIds : showVariable(id[1], id[2])
    \/ toggleShowHiddenVariables

SpecHandlers == Init /\ [][NextHandlers]_vars

AnimSnaps == {Some(SnapX), Some(SnapLoop)}
AnimSteps ==
    StepPayloads(AnimSnaps, {None} \cup {Some(a) : a \in AnimationEvents}, {None}, {None})

\* the animation pipeline: steps carrying animations, position updates,
\* removal timers and resets
NextAnim ==
    \/ Mount
    \/ OnConnect
    \/ \E data \in AnimSteps : OnExecutionStep(data)
    \/ OnExecutionError
    \/ updatePositions
    \/ \E t \in timers : TimerFire(t)
    \/ \E d \in TickSteps : Tick(d)
    \/ ClickReset

SpecAnim == Init /\ [][NextAnim]_vars

FaultSteps ==
    StepPayloads({None, Some(SnapLoop)}, {None, Some(AnimationEvent(1, "fly"))},
                 {None, Some(<<Frame(0, "arr", 0)>>)}, {None, Some(2)})

\* a stepped or running session with a populated display that receives
\* execution_error
NextFault ==
    \/ Mount
    \/ OnConnect
    \/ \E c \in CodeTexts : setCode(c)
    \/ handleStepCode
    \/ OnExecutionStarted
    \/ \E data \in FaultSteps : OnExecutionStep(data)
    \/ updatePositions
    \/ \E t \in timers : TimerFire(t)
    \/ \E d \in TickSteps : Tick(d)
    \/ OnExecutionError

SpecFault == Init /\ [][NextFault]_vars

\* an object entry that lacks type and value
PartialVar ==
    [shape |-> "object", type |-> "", isArray |-> FALSE, value |-> <<>>,
     kind |-> "undefined"]

\* a well-formed entry, an entry that is not an object and a partial entry
SnapMixed ==
    [s \in {"global"} |->
        [n \in {"x", "i", "arr"} |->
            IF n = "x" THEN IntVar(1) ELSE IF n = "i" THEN RawVar(7) ELSE PartialVar]]

PositionSnaps == {None, Some(SnapX), Some(SnapMixed)}
PositionSteps == StepPayloads(PositionSnaps, {None}, {None}, {None})
PositionIds == {VarId("global", "x"), VarId("global", "i"), VarId("global", "arr")}

\* snapshots changing under the viewer while cards are hidden, shown and
\* measured
NextPositions ==
    \/ Mount
    \/ OnConnect
    \/ \E data \in PositionSteps : OnExecutionStep(data)
    \/ \E id \in PositionIds : ClickHide(id)
    \/ \E id \in PositionIds : ClickShow(id)
    \/ ClickToggle
    \/ updatePositions

SpecPositions == Init /\ [][NextPositions]_vars

\* the visibility store with hide, show and the reveal toggle invoked
\* directly on every identifier, whatever buttons the cards show
NextVisibility ==
    \/ Mount
    \/ OnConnect
    \/ \E data \in PositionSteps : OnExecutionStep(data)
    \/ \E id \in PositionIds : hideVariable(id[1], id[2])
    \/ \E id \in PositionIds : showVariable(id[1], id[2])
    \/ toggleShowHiddenVariables
    \/ updatePositions

SpecVisibility == Init /\ [][NextVisibility]_vars

\* entries with a value and no type, a type and no value, and a type with a
\* null value
SnapMalformed ==
    [s \in {"global"} |->
        [n \in {"x", "i", "arr"} |->
            IF n = "x" THEN ValueOnlyVar(3)
            ELSE IF n = "i" THEN TypeOnlyVar("int") ELSE NullVar("str")]]

RenderSnaps == {None, Some(SnapX), Some(SnapMixed), Some(SnapMalformed)}
RenderSteps == StepPayloads(RenderSnaps, {None}, {None}, {None, Some(2)})

\* the viewer rendering whatever entries the steps carry; once a render has
\* thrown the tree is unmounted and nothing runs any more
NextRender ==
    \/ ~RenderFails /\ Mount
    \/ ~RenderFails /\ OnConnect
    \/ ~RenderFails /\ handleStepCode
    \/ ~RenderFails /\ \E c \in CodeTexts : setCode(c)
    \/ ~RenderFails /\ \E data \in RenderSteps : OnExecutionStep(data)
    \/ ~RenderFails /\ \E id \in PositionIds : ClickHide(id)
    \/ ~RenderFails /\ \E id \in PositionIds : ClickShow(id)
    \/ ~RenderFails /\ ClickToggle
    \/ ~RenderFails /\ updatePositions

SpecRender == Init /\ [][NextRender]_vars

StaleSteps ==
    StepPayloads({Some(SnapX), Some(SnapLoop)}, {None, Some(AnimationEvent(1, "fly"))},
                 {None}, {None})

\* cards hidden and snapshots replaced between two measurements while
\* animation events arrive
NextStale ==
    \/ Mount
    \/ OnConnect
    \/ \E data \in StaleSteps : OnExecutionStep(data)
    \/ \E id \in PositionIds : ClickHide(id)
    \/ \E id \in PositionIds : ClickShow(id)
    \/ ClickToggle
    \/ updatePositions
    \/ \E t \in timers : TimerFire(t)
    \/ \E d \in TickSteps : Tick(d)

SpecStale == Init /\ [][NextStale]_vars

FlightSteps ==
    StepPayloads({Some(SnapLoop)}, {None} \cup {Some(a) : a \in AnimationEvents},
                 {None}, {None})

\* entries in flight: events, position updates, the clock and the timers
NextFlight ==
    \/ Mount
    \/ OnConnect
    \/ \E data \in FlightSteps : OnExecutionStep(data)
    \/ updatePositions
    \/ \E t \in timers : TimerFire(t)
    \/ \E d \in TickSteps : Tick(d)

\* the browser runs every setTimeout callback that is due, and time passes
FlightFairness ==
    /\ \A id \in 0..MaxAnimations :
          WF_vars(\E t \in timers : t.id = id /\ TimerFire(t))
    /\ \A d \in TickSteps : WF_vars(Tick(d))

SpecFlight == Init /\ [][NextFlight]_vars /\ FlightFairness

(***************************************************************************)
(* VariableViewer: iteration context of one element of an array.           *)
(***************************************************************************)
MultiIndexSpec(indices, indexVars) ==
    [type |-> "multi_index", indices |-> indices, index_vars |-> indexVars,
     start_index |-> 0, end_index |-> 0, start_var |-> "", end_var |-> ""]

SliceRangeSpec(startIdx, endIdx, startVar, endVar) ==
    [type |-> "slice_range", indices |-> <<>>, index_vars |-> <<>>,
     start_index |-> startIdx, end_index |-> endIdx,
     start_var |-> startVar, end_var |-> endVar]

\* a context whose multi_indices object has one key
FrameWith(level, container, index, varName, spec) ==
    [level |-> level, container |-> container, current_index |-> index,
     multi_indices |-> [n \in {varName} |-> spec]]

\* context.multi_indices && context.multi_indices[varName]
HasMultiIndices(context, varName) ==
    /\ context.multi_indices # EmptyObject
    /\ varName \in DOMAIN context.multi_indices

\* Array.prototype.indexOf: first position, counted from 0, or -1
indexOf(xs, x) ==
    LET ks == {k \in 1..Len(xs) : xs[k] = x}
    IN  IF ks = {} THEN -1 ELSE (CHOOSE k \in ks : \A j \in ks : k <= j) - 1

\* xs[k] for k counted from 0; undefined outside the array
At(xs, k) == IF k + 1 \in 1..Len(xs) THEN Some(xs[k + 1]) ELSE None

\* plausible slip: the container of the context is not compared
iterationInfo_AnyContainer(stack, varName, index) ==
    LET ks == {k \in 1..Len(stack) : /\ stack[k].current_index = index
                                      /\ stack[k].current_index >= 0}
    IN  IF ks = {} THEN None
        ELSE Some(stack[CHOOSE k \in ks : \A j \in ks : k <= j])

\* iterationStack.find(...): the first context on this container at this index
iterationInfo(stack, varName, index) ==
    LET ks == {k \in 1..Len(stack) : /\ stack[k].container = varName
                                      /\ stack[k].current_index = index
                                      /\ stack[k].current_index >= 0}
    IN  IF ks = {} THEN None
        ELSE Some(stack[CHOOSE k \in ks : \A j \in ks : k <= j])

NoMatch == [kind |-> "none"]

\* plausible slip: every pointer is labelled with the first index variable
ContextMatch_FirstVar(context, varName, index) ==
    IF ~HasMultiIndices(context, varName) THEN NoMatch
    ELSE LET multiIndices == context.multi_indices[varName]
             pointerIndex == indexOf(multiIndices.indices, index)
             startIdx == multiIndices.start_index
             endIdx == multiIndices.end_index
         IN  IF multiIndices.type = "multi_index"
             THEN IF pointerIndex # -1
                  THEN [kind |-> "multi_index",
                        info |-> [level |-> context.level,
                                  pointerType |-> pointerIndex,
                                  pointerVar |-> At(multiIndices.index_vars, 0),
                                  totalPointers |-> Len(multiIndices.indices)]]
                  ELSE NoMatch
             ELSE IF multiIndices.type = "slice_range"
             THEN IF index >= startIdx /\ index < endIdx
                  THEN [kind |-> "slice_range",
                        info |-> [level |-> context.level,
                                  startVar |-> multiIndices.start_var,
                                  endVar |-> multiIndices.end_var,
                                  startIndex |-> startIdx,
                                  endIndex |-> endIdx,
                                  isStartBoundary |-> index = startIdx,
                                  isEndBoundary |-> index = endIdx - 1]]
                  ELSE NoMatch
             ELSE NoMatch

\* plausible slip: the end of the slice is taken as inclusive
ContextMatch_InclusiveEnd(context, varName, index) ==
    IF ~HasMultiIndices(context, varName) THEN NoMatch
    ELSE LET multiIndices == context.multi_indices[varName]
             pointerIndex == indexOf(multiIndices.indices, index)
             startIdx == multiIndices.start_index
             endIdx == multiIndices.end_index
         IN  IF multiIndices.type = "multi_index"
             THEN IF pointerIndex # -1
                  THEN [kind |-> "multi_index",
                        info |-> [level |-> context.level,
                                  pointerType |-> pointerIndex,
                                  pointerVar |-> At(multiIndices.index_vars, pointerIndex),
                                  totalPointers |-> Len(multiIndices.indices)]]
                  ELSE NoMatch
             ELSE IF multiIndices.type = "slice_range"
             THEN IF index >= startIdx /\ index <= endIdx
                  THEN [kind |-> "slice_range",
                        info |-> [level |-> context.level,
                                  startVar |-> multiIndices.start_var,
                                  endVar |-> multiIndices.end_var,
                                  startIndex |-> startIdx,
                                  endIndex |-> endIdx,
                                  isStartBoundary |-> index = startIdx,
                                  isEndBoundary |-> index = endIdx - 1]]
                  ELSE NoMatch
             ELSE NoMatch

\* one pass of the body of `for (let context of iterationStack)`: the info
\* the context yields for the element, the loop breaking when it yields one
ContextMatch(context, varName, index) ==
    IF ~HasMultiIndices(context, varName) THEN NoMatch
    ELSE LET multiIndices == context.multi_indices[varName]
             pointerIndex == indexOf(multiIndices.indices, index)
             startIdx == multiIndices.start_index
             endIdx == multiIndices.end_index
         IN  IF multiIndices.type = "multi_index"
             THEN IF pointerIndex # -1
                  THEN [kind |-> "multi_index",
                        info |-> [level |-> context.level,
                                  pointerType |-> pointerIndex,
                                  pointerVar |-> At(multiIndices.index_vars, pointerIndex),
                                  totalPointers |-> Len(multiIndices.indices)]]
                  ELSE NoMatch
             ELSE IF multiIndices.type = "slice_range"
             THEN IF index >= startIdx /\ index < endIdx
                  THEN [kind |-> "slice_range",
                        info |-> [level |-> context.level,
                                  startVar |-> multiIndices.start_var,
                                  endVar |-> multiIndices.end_var,
                                  startIndex |-> startIdx,
                                  endIndex |-> endIdx,
                                  isStartBoundary |-> index = startIdx,
                                  isEndBoundary |-> index = endIdx - 1]]
                  ELSE NoMatch
             ELSE NoMatch

\* the for-loop: contexts in stack order up to the first one that breaks
RECURSIVE ScanContexts(_, _, _)
ScanContexts(stack, varName, index) ==
    IF stack = <<>> THEN NoMatch
    ELSE LET m == ContextMatch(Head(stack), varName, index)
         IN  IF m.kind # "none" THEN m ELSE ScanContexts(Tail(stack), varName, index)

\* plausible slip: pointers are looked up by a scan of their own
multiIndexInfo_OwnScan(stack, varName, index) ==
    LET ks == {k \in 1..Len(stack) :
                  ContextMatch(stack[k], varName, index).kind = "multi_index"}
    IN  IF ks = {} THEN None
        ELSE Some(ContextMatch(stack[CHOOSE k \in ks : \A j \in ks : k <= j],
                               varName, index).info)

multiIndexInfo(stack, varName, index) ==
    LET m == ScanContexts(stack, varName, index)
    IN  IF m.kind = "multi_index" THEN Some(m.info) ELSE None

\* plausible slip: slices are looked up by a scan of their own
sliceRangeInfo_OwnScan(stack, varName, index) ==
    LET ks == {k \in 1..Len(stack) :
                  ContextMatch(stack[k], varName, index).kind = "slice_range"}
    IN  IF ks = {} THEN None
        ELSE Some(ContextMatch(stack[CHOOSE k \in ks : \A j \in ks : k <= j],
                               varName, index).info)

sliceRangeInfo(stack, varName, index) ==
    LET m == ScanContexts(stack, varName, index)
    IN  IF m.kind = "slice_range" THEN Some(m.info) ELSE None

isCurrentIteration(stack, varName, index) ==
    IsSome(iterationInfo(stack, varName, index)) \/ IsSome(multiIndexInfo(stack, varName, index))

isSliceRange(stack, varName, index) == IsSome(sliceRangeInfo(stack, varName, index))

iterationLevel(stack, varName, index) ==
    IF IsSome(iterationInfo(stack, varName, index))
    THEN Unwrap(iterationInfo(stack, varName, index)).level
    ELSE IF IsSome(multiIndexInfo(stack, varName, index))
    THEN Unwrap(multiIndexInfo(stack, varName, index)).level
    ELSE IF IsSome(sliceRangeInfo(stack, varName, index))
    THEN Unwrap(sliceRangeInfo(stack, varName, index)).level
    ELSE 0

pointerType(stack, varName, index) ==
    IF IsSome(multiIndexInfo(stack, varName, index))
    THEN Unwrap(multiIndexInfo(stack, varName, index)).pointerType
    ELSE 0

\* value.map((item, index) => ...) over the arrays of the rendered cards
ArrayElements ==
    UNION {{<<id[2], i>> : i \in 0..(Len(variables[id[1]][id[2]].value) - 1)}
           : id \in {c \in RefCards(variables, hiddenVariables, showHiddenVariables)
                          : variables[c[1]][c[2]].isArray}}

SnapArr == [s \in {"global"} |-> [n \in {"arr"} |-> ListVar(<<5, 6, 7>>)]]

\* contexts of single-pointer loops: not started, outer, inner, other container
PlainFrames ==
    {Frame(0, "arr", -1), Frame(0, "arr", 0), Frame(1, "arr", 0), Frame(1, "arr", 2),
     Frame(0, "brr", 2)}

\* contexts of two-pointer scans and slices, over the array and over another
\* container
SpecFrames ==
    {FrameWith(0, "arr", -1, "arr", MultiIndexSpec(<<0, 2>>, <<"i", "j">>)),
     FrameWith(1, "arr", -1, "arr", MultiIndexSpec(<<1, 1>>, <<"i", "j">>)),
     FrameWith(0, "arr", -1, "brr", MultiIndexSpec(<<0, 2>>, <<"i", "j">>)),
     FrameWith(1, "arr", 1, "arr", SliceRangeSpec(1, 3, "lo", "hi")),
     FrameWith(0, "arr", -1, "arr", SliceRangeSpec(2, 2, "lo", "hi")),
     FrameWith(0, "arr", -1, "arr", SliceRangeSpec(0, 2, "lo", "hi")),
     FrameWith(1, "arr", -1, "arr", SliceRangeSpec(2, 1, "lo", "hi"))}

MaxStack == 2

ResolverStacks ==
    UNION {[1..n -> PlainFrames \cup SpecFrames] : n \in 0..MaxStack}

ResolverSteps ==
    StepPayloads({Some(SnapArr)}, {None}, {None} \cup {Some(st) : st \in ResolverStacks},
                 {None})

\* steps that deliver an array together with its iteration stack
NextResolver ==
    \/ Mount
    \/ OnConnect
    \/ \E data \in ResolverSteps : OnExecutionStep(data)
    \/ \E result \in {None} : OnExecutionCompleted(result)

SpecResolver == Init /\ [][NextResolver]_vars

\* what an array element is rendered with: the css classes after the base
\* class, the data attributes and the title
elementView(stack, varName, index) ==
    LET mi == multiIndexInfo(stack, varName, index)
        sr == sliceRangeInfo(stack, varName, index)
        current == isCurrentIteration(stack, varName, index)
        slice == isSliceRange(stack, varName, index)
    IN  [current |-> current,
         levelClass |-> IF current THEN Some(iterationLevel(stack, varName, index)) ELSE None,
         pointerClass |-> IF IsSome(mi) THEN Some(pointerType(stack, varName, index)) ELSE None,
         slice |-> slice,
         sliceStart |-> slice /\ Unwrap(sr).isStartBoundary,
         sliceEnd |-> slice /\ Unwrap(sr).isEndBoundary,
         iterationLevel |-> iterationLevel(stack, varName, index),
         pointerType |-> pointerType(stack, varName, index),
         title |-> IF IsSome(mi) THEN "Pointer" ELSE IF IsSome(sr) THEN "Slice" ELSE "",
         pointerVar |-> IF IsSome(mi) THEN Unwrap(mi).pointerVar ELSE None,
         sliceVars |-> IF ~IsSome(mi) /\ IsSome(sr)
                       THEN <<Unwrap(sr).startVar, Unwrap(sr).endVar>> ELSE <<>>,
         sliceBounds |-> IF ~IsSome(mi) /\ IsSome(sr)
                         THEN <<Unwrap(sr).startIndex, Unwrap(sr).endIndex>> ELSE <<>>]

(***************************************************************************)
(* VariableViewer: iteration context of one character of a string, the     *)
(* second copy of the resolver in renderVariableValue.                     *)
(***************************************************************************)
\* Array.from(value) of a string: its code points in order
chars(varData) == varData.value

\* the entry takes the string branch: not an array, and type 'str' or a
\* string value
IsStringView(varData) ==
    /\ varData.shape = "object"
    /\ ~varData.isArray
    /\ (varData.type = "str" \/ varData.kind = "string")

\* iterationStack.find(...) of the string branch
charIterationInfo(stack, varName, index) ==
    LET ks == {k \in 1..Len(stack) : /\ stack[k].container = varName
                                      /\ stack[k].current_index = index
                                      /\ stack[k].current_index >= 0}
    IN  IF ks = {} THEN None
        ELSE Some(stack[CHOOSE k \in ks : \A j \in ks : k <= j])

\* one pass of the body of the for-loop of the string branch
charContextMatch(context, varName, index) ==
    IF ~HasMultiIndices(context, varName) THEN NoMatch
    ELSE LET multiIndices == context.multi_indices[varName]
             pointerIndex == indexOf(multiIndices.indices, index)
             startIdx == multiIndices.start_index
             endIdx == multiIndices.end_index
         IN  IF multiIndices.type = "multi_index"
             THEN IF pointerIndex # -1
                  THEN [kind |-> "multi_index",
                        info |-> [level |-> context.level,
                                  pointerType |-> pointerIndex,
                                  pointerVar |-> At(multiIndices.index_vars, pointerIndex),
                                  totalPointers |-> Len(multiIndices.indices)]]
                  ELSE NoMatch
             ELSE IF multiIndices.type = "slice_range"
             THEN IF index >= startIdx /\ index < endIdx
                  THEN [kind |-> "slice_range",
                        info |-> [level |-> context.level,
                                  startVar |-> multiIndices.start_var,
                                  endVar |-> multiIndices.end_var,
                                  startIndex |-> startIdx,
                                  endIndex |-> endIdx,
                                  isStartBoundary |-> index = startIdx,
                                  isEndBoundary |-> index = endIdx - 1]]
                  ELSE NoMatch
             ELSE NoMatch

\* the for-loop of the string branch
RECURSIVE charScanContexts(_, _, _)
charScanContexts(stack, varName, index) ==
    IF stack = <<>> THEN NoMatch
    ELSE LET m == charContextMatch(Head(stack), varName, index)
         IN  IF m.kind # "none" THEN m ELSE charScanContexts(Tail(stack), varName, index)

charMultiIndexInfo(stack, varName, index) ==
    LET m == charScanContexts(stack, varName, index)
    IN  IF m.kind = "multi_index" THEN Some(m.info) ELSE None

charSliceRangeInfo(stack, varName, index) ==
    LET m == charScanContexts(stack, varName, index)
    IN  IF m.kind = "slice_range" THEN Some(m.info) ELSE None

charIsCurrentIteration(stack, varName, index) ==
    \/ IsSome(charIterationInfo(stack, varName, index))
    \/ IsSome(charMultiIndexInfo(stack, varName, index))

charIsSliceRange(stack, varName, index) ==
    IsSome(charSliceRangeInfo(stack, varName, index))

\* plausible slip: the level of the pointer context takes precedence
charIterationLevel_PointerFirst(stack, varName, index) ==
    IF IsSome(charMultiIndexInfo(stack, varName, index))
    THEN Unwrap(charMultiIndexInfo(stack, varName, index)).level
    ELSE IF IsSome(charIterationInfo(stack, varName, index))
    THEN Unwrap(charIterationInfo(stack, varName, index)).level
    ELSE IF IsSome(charSliceRangeInfo(stack, varName, index))
    THEN Unwrap(charSliceRangeInfo(stack, varName, index)).level
    ELSE 0

charIterationLevel(stack, varName, index) ==
    IF IsSome(charIterationInfo(stack, varName, index))
    THEN Unwrap(charIterationInfo(stack, varName, index)).level
    ELSE IF IsSome(charMultiIndexInfo(stack, varName, index))
    THEN Unwrap(charMultiIndexInfo(stack, varName, index)).level
    ELSE IF IsSome(charSliceRangeInfo(stack, varName, index))
    THEN Unwrap(charSliceRangeInfo(stack, varName, index)).level
    ELSE 0

charPointerType(stack, varName, index) ==
    IF IsSome(charMultiIndexInfo(stack, varName, index))
    THEN Unwrap(charMultiIndexInfo(stack, varName, index)).pointerType
    ELSE 0

\* what a character is rendered with: the css classes after the base class,
\* the data attributes and the title
charView(stack, varName, index) ==
    LET mi == charMultiIndexInfo(stack, varName, index)
        sr == charSliceRangeInfo(stack, varName, index)
        current == charIsCurrentIteration(stack, varName, index)
        slice == charIsSliceRange(stack, varName, index)
    IN  [current |-> current,
         levelClass |-> IF current THEN Some(charIterationLevel(stack, varName, index)) ELSE None,
         pointerClass |-> IF IsSome(mi) THEN Some(charPointerType(stack, varName, index)) ELSE None,
         slice |-> slice,
         sliceStart |-> slice /\ Unwrap(sr).isStartBoundary,
         sliceEnd |-> slice /\ Unwrap(sr).isEndBoundary,
         iterationLevel |-> charIterationLevel(stack, varName, index),
         pointerType |-> charPointerType(stack, varName, index),
         title |-> IF IsSome(mi) THEN "Pointer" ELSE IF IsSome(sr) THEN "Slice" ELSE "",
         pointerVar |-> IF IsSome(mi) THEN Unwrap(mi).pointerVar ELSE None,
         sliceVars |-> IF ~IsSome(mi) /\ IsSome(sr)
                       THEN <<Unwrap(sr).startVar, Unwrap(sr).endVar>> ELSE <<>>,
         sliceBounds |-> IF ~IsSome(mi) /\ IsSome(sr)
                         THEN <<Unwrap(sr).startIndex, Unwrap(sr).endIndex>> ELSE <<>>]

\* chars.map((char, index) => ...) over the strings of the rendered cards
StringCharacters ==
    UNION {{<<id[2], i>> : i \in 0..(Len(chars(variables[id[1]][id[2]])) - 1)}
           : id \in {c \in RefCards(variables, hiddenVariables, showHiddenVariables)
                          : IsStringView(variables[c[1]][c[2]])}}

\* the string "abc" under the name the contexts iterate over
SnapStr == [s \in {"global"} |-> [n \in {"arr"} |-> StrVar(<<97, 98, 99>>)]]

StringSteps ==
    StepPayloads({Some(SnapStr)}, {None}, {None} \cup {Some(st) : st \in ResolverStacks},
                 {None})

\* steps that deliver a string together with its iteration stack
NextStrings ==
    \/ Mount
    \/ OnConnect
    \/ \E data \in StringSteps : OnExecutionStep(data)
    \/ \E result \in {None} : OnExecutionCompleted(result)

SpecStrings == Init /\ [][NextStrings]_vars

(***************************************************************************)
(* Properties of the session and of the animation pipeline.                *)
(***************************************************************************)
ResetMessage == SocketMessage("reset", <<>>, FALSE)
ContinueMessage == SocketMessage("step_next", <<>>, FALSE)

\* C1: after requestReset, from any session state, the snapshot is empty,
\* currentLine is null, the mode is idle, the step-mode flag is off, and a
\* 'reset' message has been sent when a socket exists.
C1_ResetClearsSession ==
    lastOp = "requestReset" =>
        /\ variables = EmptyObject
        /\ currentLine = None
        /\ executionState = "idle"
        /\ ~isStepMode
        /\ (socket # "null" => emitted = <<ResetMessage>>)

\* a reset issued while a run request is still in flight, with a socket
C1_Witness ==
    /\ lastOp = "requestReset"
    /\ pendingParse > 0
    /\ socket = "io"
    /\ emitted = <<ResetMessage>>

\* C2: the first delivery, after a reset, of an animation key that was seen
\* before the reset creates a new animation entry when both positions are
\* present.
C2_ResetMakesKeysReplayable ==
    [][\A data \in AnimSteps :
          (/\ OnExecutionStep(data)
           /\ IsSome(data.animation)
           /\ animationKey(Unwrap(data.animation)) \in delivered.before
           /\ animationKey(Unwrap(data.animation)) \notin delivered.since
           /\ HasPositions(Unwrap(data.animation), variablePositions))
          => Len(activeAnimations') = Len(activeAnimations) + 1]_vars

\* C3: the hidden set and the reveal flag change only in hide, show and the
\* reveal toggle; every session command and inbound event leaves them alone.
C3_VisibilityFrame ==
    [][lastOp' \notin {"hide", "show", "toggle"}
       => UNCHANGED <<hiddenVariables, showHiddenVariables>>]_vars

\* a reset that ran while a variable was hidden and revealed
C3_Witness ==
    /\ lastOp = "requestReset"
    /\ hiddenVariables = {VarId("global", "x")}
    /\ showHiddenVariables

\* the key that entry number i of the active set was created for
KeyOfActive(i) == createdFor[activeAnimations[i].id + 1]

\* C4: no key has two active entries of which the second was created while
\* the first was less than 1200 time units old.
C4_OneActiveEntryPerKey ==
    \A i, j \in 1..Len(activeAnimations) :
        (i < j /\ KeyOfActive(i) = KeyOfActive(j))
        => activeAnimations[j].timestamp - activeAnimations[i].timestamp >= animationDuration

\* C5: a delivery of a key already seen since the last reset is a no-op: no
\* new entry, no new removal timer, no completion callback.
C5_PlaysAtMostOnce ==
    [][\A data \in AnimSteps :
          (/\ OnExecutionStep(data)
           /\ IsSome(data.animation)
           /\ animationKey(Unwrap(data.animation)) \in delivered.since)
          => UNCHANGED <<activeAnimations, timers, animationIdRef, completed>>]_vars

\* the modes the session may be in after handler op ran in mode `mode`
ModeAfter(mode, op, c, sock) ==
    CASE op = "requestRun" -> IF CodeIsBlank(c) THEN {mode} ELSE {"running"}
      [] op = "requestStep" ->
            IF ~CodeIsBlank(c) /\ sock # "null" /\ mode = "idle" THEN {"paused"} ELSE {mode}
      [] op = "requestReset" -> {"idle"}
      [] op \in {"execution_completed", "execution_complete"} -> {"idle"}
      [] op = "execution_error" -> {"error"}
      [] op \in {"execution_started", "execution_step"} ->
            IF mode = "paused" THEN {"paused"} ELSE {"running"}
      [] op \in {"code_parsed", "parse_response"} -> {mode, "error"}
      [] op = "execution_update" -> {OrElse(st, "idle") : st \in Statuses}
      [] OTHER -> {mode}

C7_ErrorUntilReset ==
    [][(executionState = "error" /\ lastOp' # "requestReset")
       => executionState' = "error"]_vars

ErrorExits ==
    {"requestReset", "requestRun", "execution_started", "execution_step",
     "execution_completed", "execution_complete", "execution_update"}

\* C7 (amended): once the mode is error it stays error under code_parsed,
\* execution_error, execution_control, requestStep, parse responses,
\* connection changes, edits and visibility operations; it leaves error
\* through requestReset, requestRun, execution_started, execution_step,
\* execution_completed, execution_complete and execution_update only.
C7_ErrorUntilExit ==
    [][(executionState = "error" /\ lastOp' \notin ErrorExits)
       => executionState' = "error"]_vars

\* requestStep with source and socket ran in error mode and left it in error
C7_Witness ==
    /\ lastOp = "requestStep"
    /\ executionState = "error"
    /\ ~CodeIsBlank(code)
    /\ socket = "io"

\* C8: requestRun and requestStep are no-ops when the source is blank or when
\* there is no connection: no session state changes and nothing is sent.
C8_GuardedCommandsAreNoOps ==
    [][(/\ lastOp' \in {"requestRun", "requestStep"}
        /\ (CodeIsBlank(code) \/ socket = "null" \/ ~isConnected))
       => /\ UNCHANGED <<executionState, isStepMode, variables, currentLine>>
          /\ emitted' = <<>>]_vars

\* C9: requestStep in idle with non-empty source and a socket sets paused and
\* the step-mode flag and sends exactly one parse request with step_mode true;
\* execution_started and execution_step received in paused keep paused; and
\* the step carrying global.x = 1 and line 1 leaves that snapshot and line.
C9_StepModeScenario ==
    [][/\ (/\ lastOp' = "requestStep"
           /\ executionState = "idle" /\ ~CodeIsBlank(code) /\ socket # "null")
          => /\ executionState' = "paused"
             /\ isStepMode'
             /\ emitted' = <<SocketMessage("parse_code", code, TRUE)>>
       /\ (lastOp' \in {"execution_started", "execution_step"} /\ executionState = "paused")
          => executionState' = "paused"
       /\ \A data \in {d \in SessionSteps : d.variables = Some(SnapX) /\ d.line = Some(1)} :
             (lastOp' = "execution_step" /\ OnExecutionStep(data))
             => /\ variables' = SnapX
                /\ variables'["global"]["x"].value = <<1>>
                /\ currentLine' = Some(1)]_vars

\* the first step of a step-mode session has arrived
C9_Witness ==
    /\ lastOp = "execution_step"
    /\ executionState = "paused"
    /\ isStepMode
    /\ variables = SnapX
    /\ currentLine = Some(1)

\* C10 (as stated): requestStep in paused sends exactly one step_next and
\* changes nothing locally.
C10_ContinueInPaused ==
    [][(lastOp' = "requestStep" /\ executionState = "paused")
       => /\ emitted' = <<ContinueMessage>>
          /\ UNCHANGED <<executionState, isStepMode, variables, currentLine,
                         iterationStack>>]_vars

\* C10 (amended): requestStep in paused, with non-empty source and a socket,
\* sends exactly one step_next and changes nothing locally.
C10_ContinueInPausedWithSource ==
    [][(/\ lastOp' = "requestStep" /\ executionState = "paused"
        /\ ~CodeIsBlank(code) /\ socket # "null")
       => /\ emitted' = <<ContinueMessage>>
          /\ UNCHANGED <<executionState, isStepMode, variables, currentLine,
                         iterationStack>>]_vars

\* a continue was sent from a paused session that already showed a step
C10_Witness ==
    /\ lastOp = "requestStep"
    /\ executionState = "paused"
    /\ emitted = <<ContinueMessage>>
    /\ currentLine = Some(1)

\* C11: requestRun in idle with non-empty source sets running, clears the
\* step-mode flag and sends exactly one parse request without step mode;
\* execution_started and execution_step received in running keep running.
C11_RunModeScenario ==
    [][/\ (lastOp' = "requestRun" /\ executionState = "idle" /\ ~CodeIsBlank(code))
          => /\ executionState' = "running"
             /\ ~isStepMode'
             /\ emitted' = <<HttpRequest("/api/parse", code)>>
             /\ ~emitted'[1].step_mode
       /\ (lastOp' \in {"execution_started", "execution_step"} /\ executionState = "running")
          => executionState' = "running"]_vars

\* a step arrived in a running session whose parse request is still in flight
C11_Witness ==
    /\ lastOp = "execution_step"
    /\ executionState = "running"
    /\ ~isStepMode
    /\ pendingParse > 0
    /\ variables = SnapX

\* C12: execution_completed in any mode sets idle, clears currentLine and the
\* step-mode flag and replaces the snapshot with result.variables, or with
\* the empty snapshot when they are absent.
C12_CompletedResets ==
    [][\A result \in SessionSnaps :
          (lastOp' = "execution_completed" /\ OnExecutionCompleted(result))
          => /\ executionState' = "idle"
             /\ currentLine' = None
             /\ ~isStepMode'
             /\ variables' = (IF result = None THEN EmptyObject ELSE result[1])]_vars

\* a completion without variables arrived in a session that showed a line
C12_Witness ==
    /\ lastOp = "execution_completed"
    /\ executionState = "idle"
    /\ variables = EmptyObject
    /\ currentLine = None
    /\ iterationStack # <<>>

\* C13: execution_error in any mode sets error, clears currentLine and the
\* step-mode flag, and leaves the snapshot, the iteration stack, the position
\* map and the active animations as they were.
C13_ErrorKeepsDisplay ==
    [][lastOp' = "execution_error"
       => /\ executionState' = "error"
          /\ currentLine' = None
          /\ ~isStepMode'
          /\ UNCHANGED <<variables, iterationStack, variablePositions, activeAnimations>>]_vars

\* an error arrived while a snapshot, a frame, positions and a flying value
\* were on display
C13_Witness ==
    /\ lastOp = "execution_error"
    /\ executionState = "error"
    /\ variables = SnapLoop
    /\ iterationStack # <<>>
    /\ variablePositions # EmptyObject
    /\ Len(activeAnimations) > 0

\* C14: execution_started sets running unless the mode is paused, which it
\* keeps, and changes no other field of the session.
C14_StartedChangesModeOnly ==
    [][lastOp' = "execution_started"
       => /\ executionState' = (IF executionState = "paused" THEN "paused" ELSE "running")
          /\ UNCHANGED <<code, variables, isConnected, socket, isStepMode, currentLine,
                         variablePositions, animationData, iterationStack,
                         activeAnimations, processedAnimations,
                         hiddenVariables, showHiddenVariables>>]_vars

\* execution_started arrived in a stepped session that already showed a line
C14_Witness ==
    /\ lastOp = "execution_started"
    /\ executionState = "paused"
    /\ isStepMode
    /\ currentLine = Some(1)
    /\ variables = SnapX

\* C15: execution_step replaces the snapshot with the variables of the event,
\* or with the empty snapshot when the event has none, and keeps paused as
\* paused and running as running.
C15_StepReplacesSnapshot ==
    [][lastOp' = "execution_step"
       => \A data \in FaultSteps :
             OnExecutionStep(data)
             => /\ variables' = (IF data.variables = None
                                 THEN EmptyObject ELSE data.variables[1])
                /\ (executionState = "paused" => executionState' = "paused")
                /\ (executionState = "running" => executionState' = "running")]_vars

\* a step without variables emptied the snapshot of a stepped session
C15_Witness ==
    /\ lastOp = "execution_step"
    /\ executionState = "paused"
    /\ variables = EmptyObject
    /\ currentLine = Some(2)

\* C16 as stated: a step carrying a line L leaves currentLine = L, a step
\* carrying no line leaves currentLine as it was.
C16_LineFollowsStep ==
    [][lastOp' = "execution_step"
       => \A data \in SessionSteps :
             OnExecutionStep(data)
             => currentLine' = (IF IsSome(data.line) THEN data.line ELSE currentLine)]_vars

\* C16: a step carrying a non-zero line L leaves currentLine = L; a step
\* carrying no line, or line 0, leaves currentLine as it was.
C16_TruthyLineFollowsStep ==
    [][lastOp' = "execution_step"
       => \A data \in SessionSteps :
             OnExecutionStep(data)
             => currentLine' = (IF IsSome(data.line) /\ data.line # Some(0)
                                THEN data.line ELSE currentLine)]_vars

\* a step moved the highlighted line of a running session
C16_Witness ==
    /\ lastOp = "execution_step"
    /\ executionState = "running"
    /\ currentLine = Some(2)
    /\ variables = SnapRaw

\* the session fields the legacy aliases are compared on
SessionFields == <<executionState, isStepMode, currentLine, variables>>

\* an execution_step that carries the given variables and nothing else
StepWith(snap) ==
    [variables |-> snap, animation |-> None, iteration_stack |-> None, line |-> None]

\* C17 as stated: execution_update leaves the session fields as execution_step
\* with the same variables would from the same state, and execution_complete
\* leaves them as execution_completed with the same variables would.
C17_AliasesMatchCurrentEvents ==
    [][/\ lastOp' = "execution_update"
          => \A data \in UpdatePayloads(SessionSnaps, Statuses) :
               OnExecutionUpdate(data)
               => \E post \in {SessionFields'} :
                    ENABLED (OnExecutionStep(StepWith(data.variables))
                             /\ SessionFields' = post)
       /\ lastOp' = "execution_complete"
          => \A data \in [variables : SessionSnaps] :
               OnExecutionComplete(data)
               => \E post \in {SessionFields'} :
                    ENABLED (OnExecutionCompleted(data.variables)
                             /\ SessionFields' = post)]_vars

\* C18: code_parsed with success false sets error and with success true
\* leaves the mode; the response of the run request sets error when it
\* reports failure or when the request fails, and leaves the mode on success.
C18_ParseOutcomeSetsMode ==
    [][/\ lastOp' = "code_parsed"
          => \A success \in BOOLEAN :
               OnCodeParsed(success)
               => executionState' = (IF success THEN executionState ELSE "error")
       /\ lastOp' = "parse_response"
          => \A outcome \in ParseOutcomes :
               ParseResponse(outcome)
               => executionState' = (IF outcome = "success"
                                     THEN executionState ELSE "error")]_vars

\* the run request of a session came back bad or failed
C18_Witness ==
    /\ lastOp = "parse_response"
    /\ executionState = "error"
    /\ pendingParse = 0
    /\ variables = EmptyObject
    /\ ~CodeIsBlank(code)

\* C19: with a stack whose contexts carry no multi_indices, element i of V
\* is current-iteration exactly when some context has container V, index i
\* and a non-negative index; it then has the level of the first such
\* context; every other element carries no marking and level 0.
C19_SinglePointer ==
    (\A k \in 1..Len(iterationStack) : iterationStack[k].multi_indices = EmptyObject)
    => \A e \in ArrayElements :
          LET matching == {k \in 1..Len(iterationStack) :
                              /\ iterationStack[k].container = e[1]
                              /\ iterationStack[k].current_index = e[2]
                              /\ iterationStack[k].current_index >= 0}
          IN  /\ isCurrentIteration(iterationStack, e[1], e[2]) <=> matching # {}
              /\ matching # {}
                 => \E k \in matching :
                       /\ \A j \in matching : k <= j
                       /\ iterationLevel(iterationStack, e[1], e[2]) = iterationStack[k].level
              /\ matching = {}
                 => /\ iterationLevel(iterationStack, e[1], e[2]) = 0
                    /\ ~isSliceRange(iterationStack, e[1], e[2])
                    /\ pointerType(iterationStack, e[1], e[2]) = 0

\* a loop that has not started sits above an inner loop at element 2
C19_Witness ==
    /\ variables = SnapArr
    /\ iterationStack = <<Frame(0, "arr", -1), Frame(1, "arr", 2)>>
    /\ isCurrentIteration(iterationStack, "arr", 2)
    /\ iterationLevel(iterationStack, "arr", 2) = 1
    /\ ~isCurrentIteration(iterationStack, "arr", 0)

\* C20: a context whose multi_indices[V] is a multi_index spec yields a
\* pointer match for element i of V exactly when i occurs in indices; the
\* rank is a position of i in indices (the first one) and the pointer
\* variable is index_vars[rank]; when no earlier context has matched the
\* element, that match is the one the element is rendered with.
C20_MultiPointer ==
    \A k \in 1..Len(iterationStack) : \A e \in ArrayElements :
        (/\ HasMultiIndices(iterationStack[k], e[1])
         /\ iterationStack[k].multi_indices[e[1]].type = "multi_index")
        => LET context == iterationStack[k]
               multiIndices == context.multi_indices[e[1]]
               m == ContextMatch(context, e[1], e[2])
               occurs == \E p \in 1..Len(multiIndices.indices) : multiIndices.indices[p] = e[2]
               reached == \A j \in 1..(k - 1) :
                             ContextMatch(iterationStack[j], e[1], e[2]).kind = "none"
           IN  /\ m.kind = "multi_index" <=> occurs
               /\ ~occurs => m.kind = "none"
               /\ occurs
                  => /\ multiIndices.indices[m.info.pointerType + 1] = e[2]
                     /\ \A p \in 1..m.info.pointerType : multiIndices.indices[p] # e[2]
                     /\ m.info.pointerVar = At(multiIndices.index_vars, m.info.pointerType)
                     /\ m.info.level = context.level
               /\ (occurs /\ reached)
                  => /\ multiIndexInfo(iterationStack, e[1], e[2]) = Some(m.info)
                     /\ pointerType(iterationStack, e[1], e[2]) = m.info.pointerType
                     /\ isCurrentIteration(iterationStack, e[1], e[2])

\* a two-pointer scan: element 2 is the second pointer, j
C20_Witness ==
    /\ variables = SnapArr
    /\ Len(iterationStack) = 1
    /\ iterationStack[1].multi_indices # EmptyObject
    /\ iterationStack[1].multi_indices = [n \in {"arr"} |-> MultiIndexSpec(<<0, 2>>, <<"i", "j">>)]
    /\ pointerType(iterationStack, "arr", 2) = 1
    /\ Unwrap(multiIndexInfo(iterationStack, "arr", 2)).pointerVar = Some("j")
    /\ ~isCurrentIteration(iterationStack, "arr", 1)

\* C21: a context whose multi_indices[V] is a slice_range spec yields a
\* slice match for element i of V exactly when start_index <= i < end_index;
\* the start flag holds exactly at start_index, the end flag exactly at
\* end_index - 1; element end_index and an empty range get nothing; when no
\* earlier context has matched the element, that match is the rendered one.
C21_SliceRange ==
    \A k \in 1..Len(iterationStack) : \A e \in ArrayElements :
        (/\ HasMultiIndices(iterationStack[k], e[1])
         /\ iterationStack[k].multi_indices[e[1]].type = "slice_range")
        => LET context == iterationStack[k]
               multiIndices == context.multi_indices[e[1]]
               m == ContextMatch(context, e[1], e[2])
               inside == multiIndices.start_index <= e[2] /\ e[2] < multiIndices.end_index
               reached == \A j \in 1..(k - 1) :
                             ContextMatch(iterationStack[j], e[1], e[2]).kind = "none"
           IN  /\ m.kind = "slice_range" <=> inside
               /\ ~inside => m.kind = "none"
               /\ e[2] = multiIndices.end_index => m.kind = "none"
               /\ multiIndices.start_index >= multiIndices.end_index => m.kind = "none"
               /\ inside
                  => /\ m.info.isStartBoundary <=> e[2] = multiIndices.start_index
                     /\ m.info.isEndBoundary <=> e[2] = multiIndices.end_index - 1
                     /\ m.info.level = context.level
               /\ (inside /\ reached)
                  => /\ sliceRangeInfo(iterationStack, e[1], e[2]) = Some(m.info)
                     /\ isSliceRange(iterationStack, e[1], e[2])

\* the slice [0, 2) of a three element array: 0 starts it, 1 ends it, 2 is out
C21_Witness ==
    /\ variables = SnapArr
    /\ iterationStack = <<FrameWith(0, "arr", -1, "arr", SliceRangeSpec(0, 2, "lo", "hi"))>>
    /\ isSliceRange(iterationStack, "arr", 0)
    /\ Unwrap(sliceRangeInfo(iterationStack, "arr", 0)).isStartBoundary
    /\ Unwrap(sliceRangeInfo(iterationStack, "arr", 1)).isEndBoundary
    /\ ~isSliceRange(iterationStack, "arr", 2)

\* positions of the contexts that match element e as a single pointer
SingleMatches(e) ==
    {k \in 1..Len(iterationStack) : /\ iterationStack[k].container = e[1]
                                    /\ iterationStack[k].current_index = e[2]
                                    /\ iterationStack[k].current_index >= 0}

\* positions of the contexts whose multi_indices match element e
LoopMatches(e) ==
    {k \in 1..Len(iterationStack) : ContextMatch(iterationStack[k], e[1], e[2]).kind # "none"}

First(ks) == CHOOSE k \in ks : \A j \in ks : k <= j

\* C22 as stated: the markings and the level of an element are those of the
\* first context that matches it in any way.
C22_FirstMatchWins ==
    \A e \in ArrayElements :
        LET ks == SingleMatches(e) \cup LoopMatches(e)
        IN  ks # {}
            => LET f == First(ks)
                   m == ContextMatch(iterationStack[f], e[1], e[2])
               IN  /\ iterationLevel(iterationStack, e[1], e[2]) = iterationStack[f].level
                   /\ isSliceRange(iterationStack, e[1], e[2]) <=> m.kind = "slice_range"
                   /\ IsSome(multiIndexInfo(iterationStack, e[1], e[2]))
                         <=> m.kind = "multi_index"
                   /\ isCurrentIteration(iterationStack, e[1], e[2])
                         <=> (f \in SingleMatches(e) \/ m.kind = "multi_index")

\* C22: the pointer or slice marking is that of the first context whose
\* multi_indices match the element; the single-pointer marking is that of the
\* first context on this container at this index, found independently; the
\* level is that of the single-pointer context when there is one, otherwise
\* that of the first context whose multi_indices match.
C22_FirstMatchWinsPerLookup ==
    \A e \in ArrayElements :
        LET singles == SingleMatches(e)
            loops == LoopMatches(e)
        IN  /\ iterationInfo(iterationStack, e[1], e[2])
                  = (IF singles = {} THEN None ELSE Some(iterationStack[First(singles)]))
            /\ loops = {}
               => /\ multiIndexInfo(iterationStack, e[1], e[2]) = None
                  /\ sliceRangeInfo(iterationStack, e[1], e[2]) = None
            /\ loops # {}
               => LET m == ContextMatch(iterationStack[First(loops)], e[1], e[2])
                  IN  /\ multiIndexInfo(iterationStack, e[1], e[2])
                            = (IF m.kind = "multi_index" THEN Some(m.info) ELSE None)
                      /\ sliceRangeInfo(iterationStack, e[1], e[2])
                            = (IF m.kind = "slice_range" THEN Some(m.info) ELSE None)
            /\ iterationLevel(iterationStack, e[1], e[2])
                  = (IF singles # {} THEN iterationStack[First(singles)].level
                     ELSE IF loops # {} THEN iterationStack[First(loops)].level
                     ELSE 0)

\* a slice on top of a two-pointer scan: element 0 is in both, the slice wins
C22_Witness ==
    /\ variables = SnapArr
    /\ iterationStack = <<FrameWith(0, "arr", -1, "arr", SliceRangeSpec(0, 2, "lo", "hi")),
                          FrameWith(0, "arr", -1, "arr", MultiIndexSpec(<<0, 2>>, <<"i", "j">>))>>
    /\ LoopMatches(<<"arr", 0>>) = {1, 2}
    /\ isSliceRange(iterationStack, "arr", 0)
    /\ multiIndexInfo(iterationStack, "arr", 0) = None
    /\ pointerType(iterationStack, "arr", 2) = 1

\* C23 as stated: no element carries both the current-iteration marking and
\* the slice-range marking.
C23_OneClassification ==
    \A e \in ArrayElements :
        ~(isCurrentIteration(iterationStack, e[1], e[2])
          /\ isSliceRange(iterationStack, e[1], e[2]))

\* C23: no element carries both a pointer marking and the slice-range
\* marking; the current-iteration marking goes with the slice-range marking
\* only through a single-pointer match.
C23_PointerOrSlice ==
    \A e \in ArrayElements :
        /\ ~(IsSome(multiIndexInfo(iterationStack, e[1], e[2]))
             /\ IsSome(sliceRangeInfo(iterationStack, e[1], e[2])))
        /\ (isCurrentIteration(iterationStack, e[1], e[2])
            /\ isSliceRange(iterationStack, e[1], e[2]))
           => IsSome(iterationInfo(iterationStack, e[1], e[2]))

\* a two-pointer scan on top of a slice: element 2 is a pointer, element 1
\* is in the slice only
C23_Witness ==
    /\ variables = SnapArr
    /\ iterationStack = <<FrameWith(0, "arr", -1, "arr", MultiIndexSpec(<<0, 2>>, <<"i", "j">>)),
                          FrameWith(1, "arr", 1, "arr", SliceRangeSpec(1, 3, "lo", "hi"))>>
    /\ LoopMatches(<<"arr", 2>>) = {1, 2}
    /\ IsSome(multiIndexInfo(iterationStack, "arr", 2))
    /\ ~isSliceRange(iterationStack, "arr", 2)
    /\ isSliceRange(iterationStack, "arr", 1)

\* the element carries a marking when rendered against the given stack
Marked(stack, e) ==
    isCurrentIteration(stack, e[1], e[2]) \/ isSliceRange(stack, e[1], e[2])

\* C24 as stated: after a step the markings are those of the stack the step
\* carries (none when it carries no stack), and after execution_completed
\* and after a reset no element is marked.
C24_NoStaleStack ==
    [][/\ lastOp' = "execution_step"
          => \A data \in ResolverSteps :
                OnExecutionStep(data)
                => \A e \in ArrayElements' :
                      Marked(iterationStack', e)
                         <=> Marked(OrElse(data.iteration_stack, <<>>), e)
       /\ lastOp' \in {"execution_completed", "requestReset"}
          => \A e \in ArrayElements' : ~Marked(iterationStack', e)]_vars

C26_MissingPositionSkips ==
    [][/\ (/\ lastOp' = "execution_step"
           /\ IsSome(animationData')
           /\ animationKey(Unwrap(animationData')) \notin processedAnimations
           /\ ~HasPositions(Unwrap(animationData'), variablePositions))
          => /\ UNCHANGED <<activeAnimations, timers, animationIdRef, completed, createdFor>>
             /\ executionState' = (IF executionState = "paused" THEN "paused" ELSE "running")
       /\ lastOp' = "updatePositions"
          => UNCHANGED <<activeAnimations, timers, animationIdRef, completed, createdFor,
                         executionState>>]_vars

\* the positions arrived after the event had been skipped: nothing flies
C26_Witness ==
    /\ lastOp = "updatePositions"
    /\ IsSome(animationData)
    /\ HasPositions(Unwrap(animationData), variablePositions)
    /\ animationKey(Unwrap(animationData)) \in processedAnimations
    /\ createdFor = <<>>
    /\ activeAnimations = <<>>
    /\ timers = {}

ActiveIds == {activeAnimations[i].id : i \in 1..Len(activeAnimations)}

\* C27: a created entry gets an id greater than the id of every entry
\* created before it, active or removed; the counter never goes back; active
\* entries have distinct ids and a completion removes the entry of its id and
\* no other.
C27_IdsMonotonic ==
    [][/\ Len(activeAnimations') > Len(activeAnimations)
          => LET new == activeAnimations'[Len(activeAnimations')]
             IN  /\ \A i \in 1..Len(activeAnimations) : activeAnimations[i].id < new.id
                 /\ \A i \in 1..Len(completed) : completed[i] < new.id
                 /\ \A t \in timers : t.id < new.id
                 /\ animationIdRef <= new.id
                 /\ new.id < animationIdRef'
       /\ animationIdRef <= animationIdRef'
       /\ \A i, j \in 1..Len(activeAnimations') :
             i < j => activeAnimations'[i].id < activeAnimations'[j].id
       /\ lastOp' = "animationComplete"
          => LET id == completed'[Len(completed')]
             IN  /\ ActiveIds' = ActiveIds \ {id}
                 /\ Len(activeAnimations') = Len(activeAnimations) - 1]_vars

\* the first of two entries has been removed, the second is still flying
C27_Witness ==
    /\ lastOp = "animationComplete"
    /\ completed = <<0>>
    /\ ActiveIds = {1}
    /\ animationIdRef = 2

\* the time at which the removal timer of active entry id was set to fire
RemovalTime(id) ==
    LET i == CHOOSE k \in 1..Len(activeAnimations) : activeAnimations[k].id = id
    IN  activeAnimations[i].timestamp + animationDuration

\* C28: an entry stays active until 1200 time units after its creation and
\* leaves the active set exactly then, through its own timer, whose
\* completion callback runs once with the id of the entry; every entry whose
\* removal time lies within the modelled time is eventually removed.
C28_RemovedAfterDuration ==
    /\ [][/\ lastOp' # "animationComplete" => ActiveIds \subseteq ActiveIds'
          /\ \A i \in 1..Len(activeAnimations') :
                now' <= activeAnimations'[i].timestamp + animationDuration
          /\ lastOp' = "animationComplete"
             => LET id == completed'[Len(completed')]
                IN  /\ id \in ActiveIds
                    /\ now = RemovalTime(id)
                    /\ ActiveIds' = ActiveIds \ {id}
                    /\ completed' = Append(completed, id)
                    /\ \A k \in 1..Len(completed) : completed[k] # id
                    /\ \A t \in timers' : t.id # id]_vars
    /\ \A id \in 0..MaxAnimations :
          (id \in ActiveIds /\ RemovalTime(id) <= MaxTime)
             ~> (id \notin ActiveIds /\ \E k \in 1..Len(completed) : completed[k] = id)

\* entry 0 was created at time 0 and has been removed at time 1200
C28_Witness ==
    /\ lastOp = "animationComplete"
    /\ now = animationDuration
    /\ completed = <<0>>
    /\ activeAnimations = <<>>
    /\ timers = {}

\* C29: a created entry starts at the center of the source record and ends
\* at the center of the target record, in viewport coordinates, the records
\* being those published under "global." + name when the event is handled;
\* its value is the source_value of the event.
C29_CenterToCenter ==
    [][Len(activeAnimations') > Len(activeAnimations)
       => LET new == activeAnimations'[Len(activeAnimations')]
              event == Unwrap(animationData')
              source == variablePositions'[VarId("global", event.source_variable)]
              target == variablePositions'[VarId("global", event.target_variable)]
          IN  /\ IsSome(animationData')
              /\ 2 * new.startX = 2 * source.absoluteX + source.width
              /\ 2 * new.startY = 2 * source.absoluteY + source.height
              /\ 2 * new.endX = 2 * target.absoluteX + target.width
              /\ 2 * new.endY = 2 * target.absoluteY + target.height
              /\ new.value = event.source_value]_vars

\* the value 1 flies from the card of i (first card) to the card of arr
C29_Witness ==
    /\ lastOp = "execution_step"
    /\ Len(activeAnimations) = 1
    /\ activeAnimations[1].startX = 720
    /\ activeAnimations[1].startY = 120
    /\ activeAnimations[1].endX = 720
    /\ activeAnimations[1].endY = 180
    /\ activeAnimations[1].value = 1
    /\ activeAnimations[1].timestamp = now

\* C30: the effect run with a null event empties the dedup set and changes
\* nothing else of the overlay: applied to the overlay of any reachable
\* state it returns the same entries, timers and counter; a render with a
\* null event creates no entry, schedules no timer and calls no callback,
\* also when it follows the callback of a timer that removed its own entry.
C30_NullEventClearsOnly ==
    [][/\ LET r == OverlayEffect(None, variablePositions, OverlayState, now)
          IN  /\ r.processed = {}
              /\ r.active = activeAnimations
              /\ r.timers = timers
              /\ r.idRef = animationIdRef
              /\ r.createdFor = createdFor
       /\ (animationData' = None /\ lastOp' # "animationComplete")
          => /\ processedAnimations' = {}
             /\ UNCHANGED <<activeAnimations, timers, animationIdRef, completed>>
       /\ lastOp' = "animationComplete"
          => /\ animationData' = None
             /\ processedAnimations' = {}
             /\ animationIdRef' = animationIdRef
             /\ timers' \subseteq timers
             /\ ActiveIds' \subseteq ActiveIds
             /\ Len(activeAnimations') = Len(activeAnimations) - 1
             /\ Len(completed') = Len(completed) + 1]_vars

\* the null event that follows the removal of entry 0 left entry 1, its
\* timer and the counter alone and emptied the dedup set
C30_Witness ==
    /\ lastOp = "animationComplete"
    /\ animationData = None
    /\ processedAnimations = {}
    /\ ActiveIds = {1}
    /\ \E t \in timers : t.id = 1
    /\ animationIdRef = 2
    /\ Len(createdFor) = 2

\* C31: hide(scope, name) makes scope.name a member of the hidden set and
\* show(scope, name) makes it a non-member, each leaving the membership of
\* every other identifier and the reveal flag unchanged; hiding twice equals
\* hiding once, showing twice equals showing once, show after hide gives the
\* set back for a variable that was not hidden, and operations on different
\* identifiers commute.
C31_HideShowAlgebra ==
    /\ [][\A id \in PositionIds :
            /\ hideVariable(id[1], id[2])
                  => /\ id \in hiddenVariables'
                     /\ \A other \in (PositionIds \cup hiddenVariables \cup hiddenVariables') \ {id} :
                            other \in hiddenVariables' <=> other \in hiddenVariables
                     /\ (id \in hiddenVariables => hiddenVariables' = hiddenVariables)
                     /\ showHiddenVariables' = showHiddenVariables
            /\ showVariable(id[1], id[2])
                  => /\ id \notin hiddenVariables'
                     /\ \A other \in (PositionIds \cup hiddenVariables \cup hiddenVariables') \ {id} :
                            other \in hiddenVariables' <=> other \in hiddenVariables
                     /\ (id \notin hiddenVariables => hiddenVariables' = hiddenVariables)
                     /\ showHiddenVariables' = showHiddenVariables]_vars
    /\ [](LET h == hiddenVariables IN
          \A a \in PositionIds :
             /\ hideUpdater(hideUpdater(h, a), a) = hideUpdater(h, a)
             /\ showUpdater(showUpdater(h, a), a) = showUpdater(h, a)
             /\ (a \notin h => showUpdater(hideUpdater(h, a), a) = h)
             /\ \A b \in PositionIds \ {a} :
                   /\ hideUpdater(hideUpdater(h, a), b) = hideUpdater(hideUpdater(h, b), a)
                   /\ showUpdater(showUpdater(h, a), b) = showUpdater(showUpdater(h, b), a)
                   /\ showUpdater(hideUpdater(h, a), b) = hideUpdater(showUpdater(h, b), a))

\* a second variable was hidden while another one already was: both are
\* members now
C31_Witness ==
    /\ lastOp = "hide"
    /\ hiddenVariables = {VarId("global", "x"), VarId("global", "arr")}
    /\ variables = SnapMixed

\* an entry that is not an object, or an object without type or value
Malformed(varData) ==
    \/ varData.shape # "object"
    \/ varData.type = ""
    \/ varData.kind = "undefined"

\* C32: a malformed entry never fails the step: every rendered card renders
\* without throwing, and the card of a malformed entry carries the fallback
\* classification "unknown".
C32_MalformedNeverFails ==
    \A id \in RenderedCards(variables, hiddenVariables, showHiddenVariables) :
        LET card == renderCard(variables[id[1]][id[2]]) IN
        /\ ~card.throws
        /\ Malformed(variables[id[1]][id[2]]) => card.type = "unknown"

\* events and responses of a run that can still arrive after a reset
LateArrivals ==
    {"execution_step", "execution_started", "execution_error", "code_parsed",
     "parse_response"}

\* C33: a response or event that arrives right after a requestReset, while
\* the parse request of a run started before the reset is still unanswered,
\* leaves the state the reset established: mode Idle, empty snapshot, no
\* current line.
C33_LateArrivalsIgnored ==
    [][(/\ lastOp = "requestReset"
        /\ pendingParse > 0
        /\ lastOp' \in LateArrivals)
       => /\ executionState' = "idle"
          /\ variables' = EmptyObject
          /\ currentLine' = None]_vars

\* msgs holds the 'continue' message
SendsContinue(msgs) ==
    \E k \in 1..Len(msgs) : msgs[k].name = "step_next"

\* C34: a step-mode parse request is sent only by a requestStep issued in
\* mode Idle, a 'continue' only by a requestStep issued in mode Paused, and
\* requestStep in mode Running or Error sends nothing; hence every 'continue'
\* is preceded by a step-mode parse request sent since the last reset or
\* completion.
C34_StepProtocolOrdering ==
    [][/\ SendsStepParse(emitted')
            => lastOp' = "requestStep" /\ executionState = "idle"
       /\ SendsContinue(emitted')
            => /\ lastOp' = "requestStep"
               /\ executionState = "paused"
               /\ stepRequested
       /\ (lastOp' = "requestStep" /\ executionState \in {"running", "error"})
            => emitted' = <<>>]_vars

\* the four modes of a session
Modes == {"idle", "running", "paused", "error"}

\* C35: in every reachable state the mode is one of Idle, Running, Paused,
\* Error, the step-mode flag is a boolean and the current line is an
\* integer or null, whatever the inbound events carry.
C35_SessionTypes ==
    /\ executionState \in Modes
    /\ isStepMode \in BOOLEAN
    /\ currentLine = None \/ Unwrap(currentLine) \in Int

\* C36: in every reachable state the step-mode flag is true only while the
\* mode is Paused.
C36_StepFlagOnlyInPaused ==
    isStepMode => executionState = "paused"

\* the handlers that can take a session out of Running
RunningExits ==
    {"execution_completed", "execution_error", "code_parsed", "execution_update",
     "execution_complete", "parse_response"}

C39_NoStalePositionUsed ==
    [][Len(createdFor') = Len(createdFor) + 1
       => LET a == Unwrap(animationData')
              cards == RefCards(variables', hiddenVariables', showHiddenVariables')
          IN  /\ VarId("global", a.source_variable) \in cards
              /\ VarId("global", a.target_variable) \in cards]_vars

\* C40: for the iteration stack in state and every character of every
\* displayed string, the classification computed for character i
\* (current-iteration, level, pointer rank and variable, slice-range with its
\* boundary flags and bounds) equals the one the array resolver computes for
\* element i of an array of that name.
C40_StringsResolvedLikeArrays ==
    \A e \in StringCharacters :
        charView(iterationStack, e[1], e[2]) = elementView(iterationStack, e[1], e[2])

\* a string under a two-pointer scan inside a loop: its first character is
\* the first pointer and carries the level of the loop, its last character
\* is the second pointer
C40_Witness ==
    /\ lastOp = "execution_step"
    /\ variables = SnapStr
    /\ Len(iterationStack) = 2
    /\ charView(iterationStack, "arr", 0).pointerClass = Some(0)
    /\ charView(iterationStack, "arr", 0).levelClass = Some(1)
    /\ charView(iterationStack, "arr", 2).pointerClass = Some(1)
    /\ charView(iterationStack, "arr", 2).levelClass = Some(0)
    /\ ~charView(iterationStack, "arr", 1).current

====
